---- MODULE Spec2Model ----
(***************************************************************************)
(* Model of the react-media-hooks library                                  *)
(* (src/src/contextProviders/audioContextProvider.tsx).                    *)
(*                                                                         *)
(*  Part 1: the cancel-flag stream manager useMediaStreamWithEvents /      *)
(*          useMediaStream together with hashDeviceId / hashDeviceIds.     *)
(*  Part 2: the recorder state machine useMediaRecorder /                  *)
(*          useMediaBlobRecorder.                                          *)
(*  Part 3: the time-stamp tagged variant of useMediaStream.               *)
(*  Part 4: the history-keyed variant of useMediaStream (startStream /     *)
(*          stopOldStreams).                                               *)
(*  Part 5: the callback-based useMediaRecorder (onStart / onResume).      *)
(*  Part 6: useElapsedTime with useInterval.                               *)
(*  Part 7: useMediaDevices with useAsyncEffect.                           *)
(*  Part 8: useMediaInputDevicesRequest with useMediaPermissionsQuery.     *)
(*  Part 9: useAudioAnalyser / useAnalyser.                                *)
(*  Part 10: AudioContextProvider with initAudioContext.                   *)
(*  Part 11: useBlobUrls.                                                  *)
(*  Part 12: the function elapsedTime.                                     *)
(*  Part 13: the function hashDeviceIds on pairs of specifications.        *)
(*  Part 14: useAsyncEffect (src/src/hooks/async.ts).                      *)
(*                                                                         *)
(* React is modelled as: a render captures the props and the state of the  *)
(* component; the passive effects of the committed render run later in a   *)
(* step of their own (cleanup of the previous run first, then the body)    *)
(* when a dependency differs; promise callbacks and platform events are    *)
(* steps of their own and interleave freely with renders and effects.      *)
(***************************************************************************)
EXTENDS Integers, Sequences, FiniteSets, TLC

\* ------------------------------------------------------------------ bounds

\* getUserMedia requests one manager instance may issue
MaxRequests == 3
\* distinct readings of Date.now() taken by reload() are 1..MaxClock
MaxClock == 1
\* stopStream calls counted per stream (the counter saturates here)
MaxStops == 3

\* ------------------------------------------------- constraint specifications

\* A ConstrainDOMString "deviceId" of a MediaTrackConstraints: missing, a plain
\* string, or the object {exact: id}.
NoDeviceId == [idKind |-> "none", id |-> ""]
StrId(s) == [idKind |-> "str", id |-> s]
ExactId(s) == [idKind |-> "exact", id |-> s]

\* The audio / video member of MediaStreamConstraints: missing, a boolean, or a
\* MediaTrackConstraints descriptor with the deviceId d (other members of the
\* descriptor, such as echoCancellation, are not read by the hooks).
Absent == [kind |-> "absent", b |-> FALSE, deviceId |-> NoDeviceId]
Bool(v) == [kind |-> "bool", b |-> v, deviceId |-> NoDeviceId]
Desc(d) == [kind |-> "desc", b |-> FALSE, deviceId |-> d]

\* The members the stream manager is driven with. Every non-null specification
\* requests audio, so that getUserMedia can resolve for it (getUserMedia rejects
\* a specification that requests neither audio nor video).
AudioChoices ==
    { Bool(TRUE), Desc(NoDeviceId), Desc(StrId("default")), Desc(StrId("true")),
      Desc(ExactId("mic-2")) }

VideoChoices == { Absent, Bool(TRUE) }

\* constraints: MediaStreamConstraints | null
NullConstraints == [isNull |-> TRUE, audio |-> Absent, video |-> Absent]
Constraints(a, v) == [isNull |-> FALSE, audio |-> a, video |-> v]

ConstraintSet ==
    {NullConstraints} \cup { Constraints(a, v) : a \in AudioChoices, v \in VideoChoices }

\* ------------------------------------------------------------------ hashing

\* string | null
NullHash == [isNull |-> TRUE, s |-> ""]
StrHash(s) == [isNull |-> FALSE, s |-> s]

\* JSON.stringify of the object {exact: id}
JSONStringify(d) == "{\"exact\":\"" \o d.id \o "\"}"

\* JavaScript truthiness of a deviceId: missing and the empty string are falsy
DeviceIdTruthy(d) == d.idKind = "exact" \/ (d.idKind = "str" /\ d.id # "")

hashDeviceId(d) ==
    IF ~DeviceIdTruthy(d) THEN NullHash
    ELSE IF d.idKind = "str" THEN StrHash(d.id)
    ELSE StrHash(JSONStringify(d))

\* `constraints.audio || null` is truthy for true and for every descriptor
TrackTruthy(t) == (t.kind = "bool" /\ t.b) \/ t.kind = "desc"

\* variant of hashTrack: the boolean hashes to the device id "default"
hashTrackDefault(t) ==
    IF ~TrackTruthy(t) THEN NullHash
    ELSE IF t.kind = "bool" THEN hashDeviceId(StrId("default"))
    ELSE hashDeviceId(t.deviceId)

\* the hash of one member: true.toString() for the boolean, the deviceId
\* (or null when it is missing or empty) for a descriptor
hashTrack(t) ==
    IF ~TrackTruthy(t) THEN NullHash
    ELSE IF t.kind = "bool" THEN hashDeviceId(StrId("true"))
    ELSE hashDeviceId(t.deviceId)

hashDeviceIds(c) ==
    IF c.isNull THEN [audioIdHash |-> NullHash, videoIdHash |-> NullHash]
    ELSE [audioIdHash |-> hashTrack(c.audio), videoIdHash |-> hashTrack(c.video)]

\* ---------------------------------------------------------------- recorder
\* useMediaRecorder driven by useMediaBlobRecorder (one mounted instance).
\* A recorder session is one MediaRecorder object; its events are delivered in
\* the order start, dataavailable*, (the dataavailable of stop()), stop. Events
\* of different sessions interleave freely. After the unmount setResult does
\* nothing and no render reads the refs: the events delivered then are left out.

\* MediaRecorder objects one instance may create
MaxSessions == 2
\* dataavailable events of one session before its stop() (timeSlice)
MaxChunks == 1

\* result.startTime of a result that has no start marker (null)
NullTime == -1

VARIABLES
    recMounted,               \* the owning component is mounted
    stream,                   \* the stream argument of the last render (0: null, 1: a stream)
    isRecording,              \* the isRecording argument of the last render
    recCleanup,               \* the last effect run returned a cleanup (its stream was not null)
    mediaRecorderRef,         \* mediaRecorderRef.current (0: null)
    previousMediaRecorderRef, \* previousMediaRecorderRef.current (0: null)
    sessions,                 \* number of MediaRecorder objects created; their ids are 1..sessions
    recState,                 \* per session: MediaRecorder.state ("none" before it exists)
    recEvents,                \* per session: "none", "start" (start queued), "running" (start
                              \* delivered), "flushed" (last dataavailable delivered), "done"
    nChunks,                  \* per session: dataavailable events delivered before stop()
    chunksRef,                \* chunksRef.current as a bag: per session, how many of its chunks it holds
    result,                   \* useState<RecordedMediaResult>: [startTime, blobs]
    \* history variables (not program state)
    recFirst,                 \* the first session of the current recording: the first one
                              \* created since isRecording last became true (0: none yet)
    recOpen,                  \* a session was created since isRecording last became true
    cleanStart,               \* no event of an earlier session was undelivered when recFirst
                              \* was created
    firstStartedFresh,        \* the start event of recFirst was delivered with isResuming = false
    firstFresh,               \* recFirst was created by an effect run under which
                              \* isRecording went from false to true
    streamReplaced,           \* the stream argument went from a stream to another value
    stopCalls,                \* per session: number of recorder.stop() calls on it
    idleStops,                \* the sessions stop() was called on while not recording
    delivered                 \* per session: number of dataavailable events delivered

recVars ==
    << recMounted, stream, isRecording, recCleanup, mediaRecorderRef,
       previousMediaRecorderRef, sessions, recState, recEvents, nChunks, chunksRef, result,
       recFirst, recOpen, cleanStart, firstStartedFresh, firstFresh, streamReplaced,
       stopCalls, idleStops, delivered >>

\* ------------------------------------------- time-stamped stream manager
\* useMediaStream with lastInitTimestampRef (one mounted instance): variables

\* getUserMedia requests one instance may issue
MaxStampRequests == 3
\* the readings of Date.now() are 1..MaxStampClock
MaxStampClock == 2

VARIABLES
    tsMounted,             \* the owning component is mounted
    tsRan,                 \* the effect has run at least once
    tsDeps,                \* [audioIdHash, videoIdHash] of the last effect run
    tsClock,               \* the millisecond Date.now() reads at present
    lastInitTimestampRef,  \* lastInitTimestampRef.current (0: null)
    tsStreamRef,           \* streamRef.current: 0 is null, r > 0 the stream of request r
    tsIssued,              \* number of getUserMedia calls so far
    initTimestamp,         \* per request: the initTimestamp of its effect run
    tsStatus,              \* per request: "none", "pending", "resolved", "rejected"
    tsStops                \* per stream: number of stopStream calls on it

stampVars ==
    << tsMounted, tsRan, tsDeps, tsClock, lastInitTimestampRef, tsStreamRef, tsIssued,
       initTimestamp, tsStatus, tsStops >>

\* --------------------------------------------- history-keyed stream manager
\* useMediaStream with streamsRef, startStream and stopOldStreams (one mounted
\* instance): variables

\* startStream calls one instance may make
MaxKeyedRequests == 3
\* the readings of Date.now() are 1..MaxKeyedClock
MaxKeyedClock == 2

VARIABLES
    kMounted,             \* the owning component is mounted
    kRan,                 \* the effect has run at least once
    kDeps,                \* [audioIdHash, videoIdHash] of the last effect run
    kClock,               \* the millisecond Date.now() reads at present
    kTimestamp,           \* the timestamp of the last effect run (read by its cleanup)
    streamsRef,           \* streamsRef.current: per timestamp, no entry, "pending" or a stream
    mostRecentTimestamp,  \* useState: the timestamp of the last effect run (0: null)
    currentStream,        \* useState: the stream returned by the hook (0: null)
    kIssued,              \* number of startStream calls so far; their ids are 1..kIssued
    kStamp,               \* per call: its timestamp
    kWanted,              \* per call: its constraints were not null (getUserMedia is called)
    kStatus,              \* per call: "none", "pending", "resolved", "rejected"
    kStops                \* per stream: number of stopStream calls on it

keyedVars ==
    << kMounted, kRan, kDeps, kClock, kTimestamp, streamsRef, mostRecentTimestamp,
       currentStream, kIssued, kStamp, kWanted, kStatus, kStops >>

\* ------------------------------------------------- callback-based recorder
\* useMediaRecorder with onDataAvailable, onStart, onResume and onStop (one
\* mounted instance): variables

\* MediaRecorder objects one instance may create
MaxCbSessions == 3

VARIABLES
    cbMounted,     \* the owning component is mounted
    cbStream,      \* the stream argument of the last render (0: null, 1: a stream)
    cbIsRecording, \* the isRecording argument of the last render
    cbCleanup,     \* the last effect run returned a cleanup (its stream was not null)
    cbRecorderRef, \* mediaRecorderRef.current (0: null)
    cbPreviousRef, \* previousMediaRecorderRef.current (0: null)
    cbSessions,    \* number of MediaRecorder objects created; their ids are 1..cbSessions
    cbState,       \* per session: MediaRecorder.state ("none" before it exists)
    cbEvents,      \* per session: "none", "start" (start queued), "running" (start
                   \* delivered), "flushed" (last dataavailable delivered), "done"
    cbStarted,     \* per session: the callback its start event called: "none",
                   \* "onStart" or "onResume"
    \* history variable (not program state)
    cbReplaces     \* per session: the session it replaced when the stream changed
                   \* while isRecording stayed true (0: none)

cbVars ==
    << cbMounted, cbStream, cbIsRecording, cbCleanup, cbRecorderRef, cbPreviousRef,
       cbSessions, cbState, cbEvents, cbStarted, cbReplaces >>

\* ------------------------------------------------------------ elapsed time
\* useElapsedTime with useInterval (one mounted instance): variables

\* the readings of performance.now() are 1..MaxNow
MaxNow == 4

VARIABLES
    etMounted,        \* the owning component is mounted
    etNow,            \* performance.now() at present
    etStartTime,      \* result.startTime of the last render (0: null)
    etIsRecording,    \* the isRecording argument of the last render
    updateInterval,   \* the updateInterval argument of the last render (0: null)
    etStartDue,       \* isRecording went from false to true and the start event of the
                      \* new recording has not changed result.startTime yet
    elapsed,          \* useState: the elapsed member of the ElapsedTime state
    etView,           \* the elapsed member returned by the last render
    etNeedsRender,    \* setElapsed awaits its render
    etEffectsPending, \* the last render's passive effects have not been flushed yet
    etRan,            \* the effects have run at least once
    savedCallback,    \* savedCallback.current: the result.startTime its closure holds
    delay,            \* the delay of the last run of the interval effect (0: null)
    interval,         \* an interval set by setInterval is active
    \* history variables (not program state)
    elapsedStart,     \* the startTime from which the elapsed state was computed
    etViewStart       \* the startTime from which the returned view was computed

elapsedVars ==
    << etMounted, etNow, etStartTime, etIsRecording, updateInterval, etStartDue, elapsed,
       etView, etNeedsRender, etEffectsPending, etRan, savedCallback, delay, interval,
       elapsedStart, etViewStart >>

\* ------------------------------------------------------------ device lists
\* useMediaDevices with useAsyncEffect (one mounted instance): variables

\* enumerateDevices requests one instance may issue
MaxEnumerations == 3
\* the readings of Date.now() are 1..MaxDevClock
MaxDevClock == 2

VARIABLES
    mdMounted,        \* the owning component is mounted
    mdClock,          \* Date.now() at present
    mdWorld,          \* the version of the platform's device list (1 or 2)
    isPermissionGranted, \* the argument of the last render
    lastUpdate,       \* useState: lastUpdate
    mdRendered,       \* the dependencies [isPermissionGranted, lastUpdate] of the last render
    mdDeps,           \* the dependencies of the last run of the effect
    mdRan,            \* the effect has run at least once
    mdEffectsPending, \* the last render's passive effects have not been flushed yet
    mdNeedsRender,    \* a state update awaits its render
    mdIssued,         \* number of enumerations issued; the latest one is mdIssued
    mdStatus,         \* per request: "none", "pending", "resolved", "failed"
    mdCancelled,      \* per request: the isCancelled flag of its effect run
    devices,          \* useState: devices (0: the empty lists, v: the lists of version v)
    mdView,           \* the lists returned by the last render
    \* history variables (not program state)
    devicesFrom,      \* the request whose result was written to devices last (0: none)
    mdLogged,         \* per request: console.error was called for it
    mdSucceeded,      \* an enumeration has succeeded and was written
    mdStaleSettled    \* an enumeration settled after its isCancelled flag was set

devicesVars ==
    << mdMounted, mdClock, mdWorld, isPermissionGranted, lastUpdate, mdRendered, mdDeps,
       mdRan, mdEffectsPending, mdNeedsRender, mdIssued, mdStatus, mdCancelled, devices,
       mdView, devicesFrom, mdLogged, mdSucceeded, mdStaleSettled >>

\* ---------------------------------------------------------- devices request
\* useMediaInputDevicesRequest with useMediaPermissionsQuery, useMediaStream
\* and useMediaInputDevices (one mounted instance): variables

\* changes of the constraints argument by the owner
MaxConstraintChanges == 1

VARIABLES
    rqMounted,         \* the owning component is mounted
    rqPlatform,        \* the browser's permission per capability: granted, prompt, denied
    rqConstraints,     \* the constraints argument of the last render: << audio, video >>
    rqChanges,         \* changes of the constraints argument so far
    rqRan,             \* the effects have run at least once
    rqEffectsPending,  \* the last render's passive effects have not been flushed yet
    rqNeedsRender,     \* a state update awaits its render
    \* useMediaPermissionsQuery
    micPermPromise,    \* "none", "pending", a PermissionState or "rejected"
    cameraPermPromise, \* "none", "pending", a PermissionState or "rejected"
    rqQueryDelivered,  \* the continuation of Promise.allSettled has run
    microphone,        \* useState: "null", a PermissionState or "unsupported"
    camera,            \* useState: "null", a PermissionState or "unsupported"
    \* useMediaInputDevicesRequest
    isInitCompleted,   \* useState
    streamConstraints, \* the constraints the last render passed to useMediaStream
    rqStream,          \* the stream the last render got from useMediaStream (0: null)
    rqPermissionGranted, \* isPermissionGranted of the last render
    rqDevices,         \* the lists of the last render: << audio valid, video valid >>
    \* useMediaStream
    rqStreamRef,       \* streamRef.current (0: null)
    rqStreamDeps,      \* the constraints hashed for the last run of the stream effect
    rqRunRequest,      \* the request of the last run of the stream effect (0: none)
    rqIssued,          \* number of getUserMedia requests issued
    rqWanted,          \* per request: its constraints
    rqStatus,          \* per request: "none", "pending", "resolved", "failed"
    rqCancelled,       \* per request: the isCancelled flag of its effect run
    rqStops,           \* per request: stopStream calls on its stream
    \* useMediaInputDevices
    rqLists,           \* useState: devices: << audio valid, video valid >>
    rqEnumDeps,        \* isPermissionGranted of the last enumeration (lastUpdate is
                       \* left alone here: devicechange belongs to the device lists)
    rqEnumPending      \* the enumeration of the last run has not settled yet

requestVars ==
    << rqMounted, rqPlatform, rqConstraints, rqChanges, rqRan, rqEffectsPending,
       rqNeedsRender, micPermPromise, cameraPermPromise, rqQueryDelivered, microphone,
       camera, isInitCompleted, streamConstraints, rqStream, rqPermissionGranted,
       rqDevices, rqStreamRef, rqStreamDeps, rqRunRequest, rqIssued,
       rqWanted, rqStatus, rqCancelled, rqStops, rqLists, rqEnumDeps,
       rqEnumPending >>

\* ----------------------------------------------------------------- analyser
\* useAudioAnalyser / useAnalyser (one mounted instance): variables

\* the source nodes the owner may pass are 1..MaxSources
MaxSources == 4
\* connect calls counted per source since its last disconnect (saturating)
MaxConnects == 2

VARIABLES
    anMounted,        \* the owning component is mounted
    anContext,        \* the audioContext of the last render (0: null, 1: the context)
    anSource,         \* the source argument of the last render (0: null)
    analyserRef,      \* ref.current (0: null, 1: the AnalyserNode)
    anEffectsPending, \* the last render's passive effects have not been flushed yet
    anRan,            \* the effect has run at least once
    anDeps,           \* [audioContext, source] of the last run of the effect
    anCleanup,        \* the source held by the cleanup of the last run (0: no cleanup)
    anConnects,       \* per source: connect(analyser) calls since its last disconnect
    \* history variables (not program state)
    anReplaced        \* a run of the effect replaced a connected source by another

analyserVars ==
    << anMounted, anContext, anSource, analyserRef, anEffectsPending, anRan, anDeps,
       anCleanup, anConnects, anReplaced >>

\* ------------------------------------------------------ audio context provider
\* AudioContextProvider with initAudioContext (one mounted instance): variables

\* changes of the audioContext prop by the owner
MaxPropChanges == 1
\* user interactions with the document
MaxInteractions == 2

VARIABLES
    acMounted,          \* the provider is mounted
    audioContext,       \* the audioContext prop of the last render (0: none, 1: given)
    acPropChanges,      \* changes of the audioContext prop so far
    acState,            \* per context: "none", "suspended", "running", "closed"
    chosenAudioContext, \* useState: chosenAudioContext (0: null)
    acChosen,           \* chosenAudioContext of the last render
    acNeedsRender,      \* setChosenAudioContext awaits its render
    acEffectsPending,   \* the last render's passive effects have not been flushed yet
    acRan,              \* the effect has run at least once
    acDeps,             \* [audioContext, chosenAudioContext] of the last run
    acListeners,        \* the contexts of the registered onUserInteraction listeners,
                        \* in the order of registration
    acInteractions      \* user interactions so far

providerVars ==
    << acMounted, audioContext, acPropChanges, acState, chosenAudioContext, acChosen,
       acNeedsRender, acEffectsPending, acRan, acDeps, acListeners, acInteractions >>

\* ----------------------------------------------------------------- blob URLs
\* useBlobUrls (one mounted instance): variables

\* the blobs arrays the owner passes are 1..MaxBlobArrays, one after another
MaxBlobArrays == 3
\* blobs in one array
MaxBlobs == 2

VARIABLES
    buMounted,        \* the owning component is mounted
    blobs,            \* the blobs argument of the last render: << array, length >>
    urls,             \* useState: urls (NoUrls: [], b: the URLs created for the
                      \* array and length b)
    buUrls,           \* urls of the last render
    buNeedsRender,    \* setUrls awaits its render
    buEffectsPending, \* the last render's passive effects have not been flushed yet
    buRan,            \* the effect has run at least once
    buDeps,           \* the blobs array of the last run of the effect
    buCleanup,        \* the urls held by the cleanup of the last run
    buCreated,        \* the arrays and lengths whose URLs URL.createObjectURL made
    buRevoked         \* the arrays and lengths whose URLs URL.revokeObjectURL got

blobUrlsVars ==
    << buMounted, blobs, urls, buUrls, buNeedsRender, buEffectsPending, buRan, buDeps,
       buCleanup, buCreated, buRevoked >>

\* ------------------------------------------------------- elapsedTime(result)
\* the function elapsedTime applied to results and clock readings: variables

VARIABLES
    evStart,          \* result.startTime of the argument (NoResult: no result at all,
                      \* NullTime: null)
    evNow,            \* performance.now() at the call
    evComputed,       \* elapsedTime was called for these inputs
    evView            \* the ElapsedTime it returned

elapsedViewVars == << evStart, evNow, evComputed, evView >>

\* ------------------------------------------------- hashDeviceIds(constraints)
\* the function hashDeviceIds applied to two constraint specifications: variables

VARIABLES
    hpLeft,           \* the first constraints argument
    hpRight,          \* the second constraints argument
    hpComputed,       \* hashDeviceIds was called for both
    hpHashes          \* the two { audioIdHash, videoIdHash } results

hashPairVars == << hpLeft, hpRight, hpComputed, hpHashes >>

\* ------------------------------------------------------------ useAsyncEffect
\* useAsyncEffect (one mounted instance of the hook): variables

\* calls of asyncFunction one instance may make
MaxCalls == 2

VARIABLES
    aeMounted,        \* the owning component is mounted
    aeDeps,           \* `dependencies` of the last render: [given, value]
    aeOnError,        \* typeof onError === "function" in the last render
    aeOnFinally,      \* typeof onFinally === "function" in the last render
    aeEffectDeps,     \* `dependencies` of the last effect run ([ran |-> FALSE] before the first)
    aeEffectsPending, \* the last render's passive effects have not been flushed yet
    aeIssued,         \* number of asyncFunction() calls so far; call ids are 1..aeIssued
    aeStage,          \* per call: "none", "pending", then the callback of the chain that
                      \* runs next: "then", "catch", "finally", and "done"
    aeOutcome,        \* per call: "none", "fulfilled", "rejected"
    aeCancelled,      \* per call: the isCancelled flag of the effect run that made it
    aeHandlers,       \* per call: [onError, onFinally] captured by the effect run
    aeSuccess,        \* per call: number of onSuccess invocations
    aeError,          \* per call: number of onError invocations
    aeFinally,        \* per call: number of onFinally invocations
    \* history variable (not program state)
    aeCancelledAtSettle \* the calls whose effect was cleaned up before they settled

asyncEffectVars ==
    << aeMounted, aeDeps, aeOnError, aeOnFinally, aeEffectDeps, aeEffectsPending, aeIssued,
       aeStage, aeOutcome, aeCancelled, aeHandlers, aeSuccess, aeError, aeFinally,
       aeCancelledAtSettle >>

\* ------------------------------------------------------------ stream manager
\* useMediaStreamWithEvents (one mounted instance of the hook)

VARIABLES
    mounted,            \* the owning component is mounted
    constraints,        \* the constraints argument of the last render
    updateTriggeredAt,  \* useState(Date.now()), set by reload()
    renderDeps,         \* [audioIdHash, videoIdHash, updateTriggeredAt] of the last render
    effectDeps,         \* the dependencies of the last effect run (NoDeps before the first)
    effectsPending,     \* the last render's passive effects have not been flushed yet
    needsRender,        \* a state update (forceUpdate, setUpdateTriggeredAt) awaits its render
    streamRef,          \* streamRef.current: 0 is null, r > 0 the stream of request r
    renderedStream,     \* the `stream` member returned by the last render
    effectReq,          \* the request issued by the last effect run (0: none)
    issued,             \* number of getUserMedia calls so far; request ids are 1..issued
    reqStatus,          \* per request: "none", "pending", "resolved", "rejected"
    isCancelled,        \* per request: the isCancelled flag of the effect run that issued it
    stopCount,          \* per stream: number of stopStream calls on it
    \* history variables (not program state)
    everCurrent,        \* streams that were ever stored in streamRef.current
    exposed,            \* streams that were ever returned to the consumer by a render
    supersededAtResolve,\* requests that resolved when they were not the latest issued
    lastResolved,       \* the request that resolved most recently (0: none yet)
    prevCurrent,        \* streamRef.current just before the effect run that issued the latest request
    effectConstraints,  \* the constraints seen by the last effect run
    latestByHashChange, \* the latest request was issued because a hash changed (not by reload or mount)
    currentAtUnmount,   \* streamRef.current just before the unmount (0: null, or still mounted)
    pendingAtUnmount    \* the requests that were pending at the unmount

streamVars ==
    << mounted, constraints, updateTriggeredAt, renderDeps, effectDeps, effectsPending,
       needsRender, streamRef, renderedStream, effectReq, issued, reqStatus, isCancelled,
       stopCount, everCurrent, exposed, supersededAtResolve, lastResolved, prevCurrent,
       effectConstraints, latestByHashChange, currentAtUnmount, pendingAtUnmount >>

\* what the actions of one hook leave alone: the variables of the other hooks
outsideStream == << recVars, stampVars, keyedVars, cbVars, elapsedVars, devicesVars, requestVars, analyserVars, providerVars, blobUrlsVars, elapsedViewVars, hashPairVars, asyncEffectVars >>
outsideRecorder == << streamVars, stampVars, keyedVars, cbVars, elapsedVars, devicesVars, requestVars, analyserVars, providerVars, blobUrlsVars, elapsedViewVars, hashPairVars, asyncEffectVars >>
outsideStamp == << streamVars, recVars, keyedVars, cbVars, elapsedVars, devicesVars, requestVars, analyserVars, providerVars, blobUrlsVars, elapsedViewVars, hashPairVars, asyncEffectVars >>
outsideKeyed == << streamVars, recVars, stampVars, cbVars, elapsedVars, devicesVars, requestVars, analyserVars, providerVars, blobUrlsVars, elapsedViewVars, hashPairVars, asyncEffectVars >>
outsideCallbacks == << streamVars, recVars, stampVars, keyedVars, elapsedVars, devicesVars, requestVars, analyserVars, providerVars, blobUrlsVars, elapsedViewVars, hashPairVars, asyncEffectVars >>
outsideElapsed == << streamVars, recVars, stampVars, keyedVars, cbVars, devicesVars, requestVars, analyserVars, providerVars, blobUrlsVars, elapsedViewVars, hashPairVars, asyncEffectVars >>
outsideDevices == << streamVars, recVars, stampVars, keyedVars, cbVars, elapsedVars, requestVars, analyserVars, providerVars, blobUrlsVars, elapsedViewVars, hashPairVars, asyncEffectVars >>
outsideRequest == << streamVars, recVars, stampVars, keyedVars, cbVars, elapsedVars, devicesVars, analyserVars, providerVars, blobUrlsVars, elapsedViewVars, hashPairVars, asyncEffectVars >>
outsideAnalyser == << streamVars, recVars, stampVars, keyedVars, cbVars, elapsedVars, devicesVars, requestVars, providerVars, blobUrlsVars, elapsedViewVars, hashPairVars, asyncEffectVars >>
outsideProvider == << streamVars, recVars, stampVars, keyedVars, cbVars, elapsedVars, devicesVars, requestVars, analyserVars, blobUrlsVars, elapsedViewVars, hashPairVars, asyncEffectVars >>
outsideBlobUrls == << streamVars, recVars, stampVars, keyedVars, cbVars, elapsedVars, devicesVars, requestVars, analyserVars, providerVars, elapsedViewVars, hashPairVars, asyncEffectVars >>
outsideElapsedView == << streamVars, recVars, stampVars, keyedVars, cbVars, elapsedVars, devicesVars, requestVars, analyserVars, providerVars, blobUrlsVars, hashPairVars, asyncEffectVars >>
outsideHashPair == << streamVars, recVars, stampVars, keyedVars, cbVars, elapsedVars, devicesVars, requestVars, analyserVars, providerVars, blobUrlsVars, elapsedViewVars, asyncEffectVars >>
outsideAsyncEffect == << streamVars, recVars, stampVars, keyedVars, cbVars, elapsedVars, devicesVars, requestVars, analyserVars, providerVars, blobUrlsVars, elapsedViewVars, hashPairVars >>

Requests == 1..MaxRequests

NoDeps == [none |-> TRUE, audioIdHash |-> NullHash, videoIdHash |-> NullHash, at |-> 0]

\* the dependency array [audioIdHash, videoIdHash, updateTriggeredAt]
Deps(c, at) ==
    [none |-> FALSE, audioIdHash |-> hashDeviceIds(c).audioIdHash,
     videoIdHash |-> hashDeviceIds(c).videoIdHash, at |-> at]

\* stopStream(stream): every track of the stream is stopped; null is skipped
stopStream(sc, s) ==
    IF s = 0 THEN sc
    ELSE [sc EXCEPT ![s] = IF @ < MaxStops THEN @ + 1 ELSE @]

InitStream ==
    /\ mounted = TRUE
    /\ constraints \in ConstraintSet
    /\ updateTriggeredAt = 0
    /\ renderDeps = Deps(constraints, 0)
    /\ effectDeps = NoDeps
    /\ effectsPending = TRUE
    /\ needsRender = FALSE
    /\ streamRef = 0
    /\ renderedStream = 0
    /\ effectReq = 0
    /\ issued = 0
    /\ reqStatus = [r \in Requests |-> "none"]
    /\ isCancelled = [r \in Requests |-> FALSE]
    /\ stopCount = [r \in Requests |-> 0]
    /\ everCurrent = {}
    /\ exposed = {}
    /\ supersededAtResolve = {}
    /\ lastResolved = 0
    /\ prevCurrent = 0
    /\ effectConstraints = NullConstraints
    /\ latestByHashChange = FALSE
    /\ currentAtUnmount = 0
    /\ pendingAtUnmount = {}

\* The hook is rendered with the constraints c (by its parent, or because of a
\* state update of its own): the hashes are computed, the dependency array is
\* built and { stream: streamRef.current, ... } is returned.
Render(c) ==
    /\ UNCHANGED outsideStream
    /\ mounted
    /\ ~effectsPending
    /\ constraints' = c
    /\ renderDeps' = Deps(c, updateTriggeredAt)
    /\ renderedStream' = streamRef
    /\ exposed' = IF streamRef = 0 THEN exposed ELSE exposed \cup {streamRef}
    /\ needsRender' = FALSE
    /\ effectsPending' = TRUE
    /\ UNCHANGED << mounted, updateTriggeredAt, effectDeps, streamRef, effectReq, issued,
                    reqStatus, isCancelled, stopCount, everCurrent,
                    supersededAtResolve, lastResolved, prevCurrent, effectConstraints,
                    latestByHashChange, currentAtUnmount, pendingAtUnmount >>

\* reload(): setUpdateTriggeredAt(Date.now()), where t is the reading of
\* Date.now(): the millisecond of the previous reading (the mount's, or the last
\* reload's) or a later one. React skips the render when the new state equals
\* the old one.
Reload(t) ==
    /\ UNCHANGED outsideStream
    /\ mounted
    /\ t <= MaxClock
    /\ updateTriggeredAt' = t
    /\ needsRender' = (needsRender \/ t # updateTriggeredAt)
    /\ UNCHANGED << mounted, constraints, renderDeps, effectDeps, effectsPending,
                    streamRef, renderedStream, effectReq, issued, reqStatus, isCancelled,
                    stopCount, everCurrent, exposed, supersededAtResolve, lastResolved,
                    prevCurrent, effectConstraints, latestByHashChange, currentAtUnmount,
                    pendingAtUnmount >>

\* The cleanup returned by the effect: isCancelled = true for the run's own
\* request, stopStream(streamRef.current), streamRef.current = null.
\* Gives the values after the cleanup.
\* variants of the cleanup: the flag is not set; the stream is not stopped;
\* the handle is not emptied
CleanupCancelledUnset == isCancelled
CleanupStopCountLeak == stopCount
CleanupStreamRefKept == streamRef

CleanupCancelled == IF effectReq = 0 THEN isCancelled ELSE [isCancelled EXCEPT ![effectReq] = TRUE]
CleanupStopCount == stopStream(stopCount, streamRef)
CleanupStreamRef == 0

\* an effect without a dependency array: it runs after every render
DepsChangedAlways == TRUE

\* The effect runs only when a dependency differs from the last run's
DepsChanged == effectDeps.none \/ effectDeps # renderDeps

\* The passive effects of the last render are flushed.
FlushEffects ==
    /\ UNCHANGED outsideStream
    /\ effectsPending
    /\ effectsPending' = FALSE
    /\ IF ~DepsChanged
       THEN UNCHANGED << effectDeps, streamRef, effectReq, issued, reqStatus, isCancelled,
                         stopCount, prevCurrent, effectConstraints, latestByHashChange >>
       ELSE LET ran == ~effectDeps.none
                cancelled1 == IF ran THEN CleanupCancelled ELSE isCancelled
                stops1 == IF ran THEN CleanupStopCount ELSE stopCount
                ref1 == IF ran THEN CleanupStreamRef ELSE streamRef
            IN  /\ effectDeps' = renderDeps
                /\ effectConstraints' = constraints
                /\ IF ~constraints.isNull
                   THEN \* navigator.mediaDevices.getUserMedia(constraints)
                        /\ issued < MaxRequests
                        /\ issued' = issued + 1
                        /\ reqStatus' = [reqStatus EXCEPT ![issued + 1] = "pending"]
                        /\ isCancelled' = cancelled1
                        /\ effectReq' = issued + 1
                        /\ prevCurrent' = streamRef
                        /\ latestByHashChange' =
                              /\ ~effectDeps.none
                              /\ \/ effectDeps.audioIdHash # renderDeps.audioIdHash
                                 \/ effectDeps.videoIdHash # renderDeps.videoIdHash
                        /\ stopCount' = stops1
                        /\ streamRef' = ref1
                   ELSE /\ isCancelled' = cancelled1
                        /\ effectReq' = 0
                        /\ stopCount' = IF ref1 # 0 THEN stopStream(stops1, ref1) ELSE stops1
                        /\ streamRef' = 0
                        /\ UNCHANGED << issued, reqStatus, prevCurrent, latestByHashChange >>
    /\ UNCHANGED << mounted, constraints, updateTriggeredAt, renderDeps, needsRender,
                    renderedStream, everCurrent, exposed, supersededAtResolve,
                    lastResolved, currentAtUnmount, pendingAtUnmount >>

\* variant of OnResolved: the stream is stored without reading isCancelled
OnResolvedUnchecked(r) ==
    /\ UNCHANGED outsideStream
    /\ reqStatus[r] = "pending"
    /\ reqStatus' = [reqStatus EXCEPT ![r] = "resolved"]
    /\ supersededAtResolve' = IF r # issued THEN supersededAtResolve \cup {r}
                              ELSE supersededAtResolve
    /\ lastResolved' = r
    /\ streamRef' = r
    /\ everCurrent' = everCurrent \cup {r}
    /\ needsRender' = TRUE
    /\ UNCHANGED << mounted, constraints, updateTriggeredAt, renderDeps, effectDeps,
                    effectsPending, renderedStream, effectReq, issued, isCancelled,
                    stopCount, exposed, prevCurrent, effectConstraints, latestByHashChange,
                    currentAtUnmount, pendingAtUnmount >>

\* The .then callback of request r runs with the acquired stream.
OnResolved(r) ==
    /\ UNCHANGED outsideStream
    /\ reqStatus[r] = "pending"
    /\ reqStatus' = [reqStatus EXCEPT ![r] = "resolved"]
    /\ supersededAtResolve' = IF r # issued THEN supersededAtResolve \cup {r}
                              ELSE supersededAtResolve
    /\ lastResolved' = r
    /\ IF isCancelled[r]
       THEN \* Invalidated before the stream was initialized
            /\ stopCount' = stopStream(stopCount, r)
            /\ UNCHANGED << streamRef, needsRender, everCurrent >>
       ELSE \* Store the stream, force a render
            /\ streamRef' = r
            /\ everCurrent' = everCurrent \cup {r}
            /\ needsRender' = TRUE
            /\ UNCHANGED stopCount
    /\ UNCHANGED << mounted, constraints, updateTriggeredAt, renderDeps, effectDeps,
                    effectsPending, renderedStream, effectReq, issued, isCancelled,
                    exposed, prevCurrent, effectConstraints, latestByHashChange,
                    currentAtUnmount, pendingAtUnmount >>

\* variant of OnRejected: the .catch callback calls getUserMedia again
OnRejectedRetry(r) ==
    /\ UNCHANGED outsideStream
    /\ reqStatus[r] = "pending"
    /\ issued < MaxRequests
    /\ issued' = issued + 1
    /\ reqStatus' = [reqStatus EXCEPT ![r] = "rejected", ![issued + 1] = "pending"]
    /\ UNCHANGED << mounted, constraints, updateTriggeredAt, renderDeps, effectDeps,
                    effectsPending, needsRender, streamRef, renderedStream, effectReq,
                    isCancelled, stopCount, everCurrent, exposed,
                    supersededAtResolve, lastResolved, prevCurrent, effectConstraints,
                    latestByHashChange, currentAtUnmount, pendingAtUnmount >>

\* The .catch callback of request r: the error is logged, nothing else.
OnRejected(r) ==
    /\ UNCHANGED outsideStream
    /\ reqStatus[r] = "pending"
    /\ reqStatus' = [reqStatus EXCEPT ![r] = "rejected"]
    /\ UNCHANGED << mounted, constraints, updateTriggeredAt, renderDeps, effectDeps,
                    effectsPending, needsRender, streamRef, renderedStream, effectReq,
                    issued, isCancelled, stopCount, everCurrent, exposed,
                    supersededAtResolve, lastResolved, prevCurrent, effectConstraints,
                    latestByHashChange, currentAtUnmount, pendingAtUnmount >>

\* The owning component unmounts: the cleanup of the last effect run is called.
Unmount ==
    /\ UNCHANGED outsideStream
    /\ mounted
    /\ ~effectsPending
    /\ mounted' = FALSE
    /\ needsRender' = FALSE
    /\ isCancelled' = CleanupCancelled
    /\ stopCount' = CleanupStopCount
    /\ streamRef' = CleanupStreamRef
    /\ currentAtUnmount' = streamRef
    /\ pendingAtUnmount' = { r \in Requests : reqStatus[r] = "pending" }
    /\ UNCHANGED << constraints, updateTriggeredAt, renderDeps, effectDeps, effectsPending,
                    renderedStream, effectReq, issued, reqStatus, everCurrent,
                    exposed, supersededAtResolve, lastResolved, prevCurrent, effectConstraints,
                    latestByHashChange >>

NextStream ==
    \/ \E c \in ConstraintSet : Render(c)
    \/ \E t \in {updateTriggeredAt, updateTriggeredAt + 1} : Reload(t)
    \/ FlushEffects
    \/ \E r \in Requests : OnResolved(r)
    \/ \E r \in Requests : OnRejected(r)
    \/ Unmount

\* ------------------------------------------------------- recorder: operations

Sessions == 1..MaxSessions
\* the stream argument of a render, named relative to the last render:
\* 0 is null, 1 the stream of the last render, 2 another stream
Streams == {0, 1, 2}

\* chunksRef.current = []
NoChunks == [r \in Sessions |-> 0]
\* chunksRef.current.push(event.data), for a chunk of session r
Push(chunks, r) == [chunks EXCEPT ![r] = @ + 1]

InitRecorder ==
    /\ recMounted = TRUE
    /\ stream = 0
    /\ isRecording = FALSE
    /\ recCleanup = FALSE
    /\ mediaRecorderRef = 0
    /\ previousMediaRecorderRef = 0
    /\ sessions = 0
    /\ recState = [r \in Sessions |-> "none"]
    /\ recEvents = [r \in Sessions |-> "none"]
    /\ nChunks = [r \in Sessions |-> 0]
    /\ chunksRef = NoChunks
    /\ result = [startTime |-> NullTime, blobs |-> << >>]
    /\ recFirst = 0
    /\ recOpen = FALSE
    /\ cleanStart = FALSE
    /\ firstStartedFresh = FALSE
    /\ firstFresh = FALSE
    /\ streamReplaced = FALSE
    /\ stopCalls = [r \in Sessions |-> 0]
    /\ idleStops = {}
    /\ delivered = [r \in Sessions |-> 0]

\* recorder.stop(): a recording session becomes inactive (its last dataavailable
\* and its stop event are queued); on an inactive session the call does nothing.
StopState(st, r) == IF st[r] = "recording" THEN [st EXCEPT ![r] = "inactive"] ELSE st

\* variant of the cleanup: it stops nothing
RecCleanupStateSkipped == recState

\* The cleanup returned by the effect: the recorder in mediaRecorderRef.current
\* is stopped when its state is "recording". Gives recState after the cleanup.
RecCleanupState ==
    IF mediaRecorderRef # 0 /\ recState[mediaRecorderRef] = "recording"
    THEN StopState(recState, mediaRecorderRef)
    ELSE recState

\* recorder.stop() is called on session r: one more call
StopCall(calls, r) == [calls EXCEPT ![r] = @ + 1]

\* The stop() calls after the cleanup: it calls stop() only on a recorder whose
\* state is "recording".
RecCleanupCalls ==
    IF mediaRecorderRef # 0 /\ recState[mediaRecorderRef] = "recording"
    THEN StopCall(stopCalls, mediaRecorderRef)
    ELSE stopCalls

\* The hook is rendered with a changed (stream, isRecording) pair and the effect
\* runs: the cleanup of the previous run (when it returned one), then the body.
SetInputs(s, b) ==
    /\ UNCHANGED outsideRecorder
    /\ recMounted
    /\ << s, b >> # << stream, isRecording >>
    /\ stream' = IF s = 0 THEN 0 ELSE 1
    /\ isRecording' = b
    /\ streamReplaced' = (streamReplaced \/ (stream # 0 /\ s # stream))
    /\ LET state1 == IF recCleanup THEN RecCleanupState ELSE recState
           calls1 == IF recCleanup THEN RecCleanupCalls ELSE stopCalls
       IN  IF s = 0
           THEN \* if (!stream) return;
                /\ recCleanup' = FALSE
                /\ recState' = state1
                /\ stopCalls' = calls1
                /\ UNCHANGED idleStops
                /\ recOpen' = (recOpen /\ b)
                /\ UNCHANGED << mediaRecorderRef, previousMediaRecorderRef, sessions,
                                recEvents, recFirst, cleanStart, firstStartedFresh,
                                firstFresh >>
           ELSE IF b
           THEN \* new MediaRecorder(stream, options); recorder.start(timeSlice)
                /\ sessions < MaxSessions
                /\ recCleanup' = TRUE
                /\ previousMediaRecorderRef' = mediaRecorderRef
                /\ mediaRecorderRef' = sessions + 1
                /\ sessions' = sessions + 1
                /\ recState' = [state1 EXCEPT ![sessions + 1] = "recording"]
                /\ recEvents' = [recEvents EXCEPT ![sessions + 1] = "start"]
                /\ stopCalls' = calls1
                /\ UNCHANGED idleStops
                /\ recOpen' = TRUE
                /\ recFirst' = IF recOpen THEN recFirst ELSE sessions + 1
                /\ cleanStart' = IF recOpen THEN cleanStart
                                 ELSE \A r \in Sessions : recEvents[r] \in {"none", "done"}
                /\ firstStartedFresh' = (recOpen /\ firstStartedFresh)
                /\ firstFresh' = IF recOpen THEN firstFresh ELSE ~isRecording
           ELSE \* else if (mediaRecorderRef.current) { recorder.stop(); ... = null }
                /\ recCleanup' = TRUE
                /\ recState' = IF mediaRecorderRef # 0 THEN StopState(state1, mediaRecorderRef)
                               ELSE state1
                /\ stopCalls' = IF mediaRecorderRef # 0 THEN StopCall(calls1, mediaRecorderRef)
                                ELSE calls1
                /\ idleStops' = IF mediaRecorderRef # 0 /\ state1[mediaRecorderRef] # "recording"
                                THEN idleStops \cup {mediaRecorderRef}
                                ELSE idleStops
                /\ mediaRecorderRef' = 0
                /\ recOpen' = FALSE
                /\ UNCHANGED << previousMediaRecorderRef, sessions, recEvents, recFirst,
                                cleanStart, firstStartedFresh, firstFresh >>
    /\ UNCHANGED << recMounted, nChunks, chunksRef, result, delivered >>

\* The owning component unmounts: the cleanup of the last effect run is called.
RecUnmount ==
    /\ UNCHANGED outsideRecorder
    /\ recMounted
    /\ recMounted' = FALSE
    /\ recState' = IF recCleanup THEN RecCleanupState ELSE recState
    /\ stopCalls' = IF recCleanup THEN RecCleanupCalls ELSE stopCalls
    /\ UNCHANGED << stream, isRecording, recCleanup, mediaRecorderRef,
                    previousMediaRecorderRef, sessions, recEvents, nChunks, chunksRef, result,
                    recFirst, recOpen, cleanStart, firstStartedFresh, firstFresh,
                    streamReplaced, idleStops, delivered >>

\* event.timeStamp of the start event of session r: the start events of
\* different sessions carry different, positive time stamps
StartTimeStamp(r) == r

\* onStart that re-initializes the result on every start event
OnStartResultAlways(ts, isResuming) == [startTime |-> ts, blobs |-> << >>]

\* onStart that never re-initializes the result
OnStartResultNever(ts, isResuming) == result

\* useMediaBlobRecorder.onStart(event, isResuming): the result after it
OnStartResult(ts, isResuming) ==
    IF ~isResuming THEN [startTime |-> ts, blobs |-> << >>] ELSE result

\* The start event of session r is delivered: the listener computes isResuming
\* from previousMediaRecorderRef.current and calls onStart.
StartEvent(r) ==
    /\ UNCHANGED outsideRecorder
    /\ recMounted
    /\ recEvents[r] = "start"
    /\ recEvents' = [recEvents EXCEPT ![r] = "running"]
    /\ chunksRef' = NoChunks
    /\ result' = OnStartResult(StartTimeStamp(r), previousMediaRecorderRef # 0)
    /\ firstStartedFresh' = IF r = recFirst THEN previousMediaRecorderRef = 0
                            ELSE firstStartedFresh
    /\ UNCHANGED << recMounted, stream, isRecording, recCleanup, mediaRecorderRef,
                    previousMediaRecorderRef, sessions, recState, nChunks, recFirst,
                    recOpen, cleanStart, firstFresh, streamReplaced, stopCalls, idleStops,
                    delivered >>

\* variant of DataEvent: every segment is published as a blob at once
DataEventPartialBlob(r) ==
    /\ UNCHANGED outsideRecorder
    /\ recMounted
    /\ recEvents[r] = "running"
    /\ recState[r] = "recording"
    /\ nChunks[r] < MaxChunks
    /\ nChunks' = [nChunks EXCEPT ![r] = @ + 1]
    /\ delivered' = [delivered EXCEPT ![r] = @ + 1]
    /\ chunksRef' = Push(chunksRef, r)
    /\ result' = [startTime |-> result.startTime,
                  blobs |-> Append(result.blobs, [rec |-> r, own |-> 1, foreign |-> FALSE])]
    /\ UNCHANGED << recMounted, stream, isRecording, recCleanup, mediaRecorderRef,
                    previousMediaRecorderRef, sessions, recState, recEvents,
                    recFirst, recOpen, cleanStart, firstStartedFresh, firstFresh,
                    streamReplaced, stopCalls, idleStops >>

\* A dataavailable event of session r is delivered while it records (timeSlice).
DataEvent(r) ==
    /\ UNCHANGED outsideRecorder
    /\ recMounted
    /\ recEvents[r] = "running"
    /\ recState[r] = "recording"
    /\ nChunks[r] < MaxChunks
    /\ nChunks' = [nChunks EXCEPT ![r] = @ + 1]
    /\ delivered' = [delivered EXCEPT ![r] = @ + 1]
    /\ chunksRef' = Push(chunksRef, r)
    /\ UNCHANGED << recMounted, stream, isRecording, recCleanup, mediaRecorderRef,
                    previousMediaRecorderRef, sessions, recState, recEvents, result,
                    recFirst, recOpen, cleanStart, firstStartedFresh, firstFresh,
                    streamReplaced, stopCalls, idleStops >>

\* The dataavailable event that stop() queues is delivered.
LastDataEvent(r) ==
    /\ UNCHANGED outsideRecorder
    /\ recMounted
    /\ recEvents[r] = "running"
    /\ recState[r] = "inactive"
    /\ recEvents' = [recEvents EXCEPT ![r] = "flushed"]
    /\ nChunks' = [nChunks EXCEPT ![r] = 0]
    /\ delivered' = [delivered EXCEPT ![r] = @ + 1]
    /\ chunksRef' = Push(chunksRef, r)
    /\ UNCHANGED << recMounted, stream, isRecording, recCleanup, mediaRecorderRef,
                    previousMediaRecorderRef, sessions, recState, result,
                    recFirst, recOpen, cleanStart, firstStartedFresh, firstFresh,
                    streamReplaced, stopCalls, idleStops >>

\* new Blob(chunksRef.current, ...) built by the stop listener of session r: how
\* many chunks of r it holds and whether it holds a chunk of another session
Blob(r, chunks) ==
    [rec |-> r, own |-> chunks[r], foreign |-> \E q \in Sessions \ {r} : chunks[q] > 0]

\* onStop that keeps only the new blob
OnStopResultReplace(r) ==
    [startTime |-> result.startTime, blobs |-> << Blob(r, chunksRef) >>]

\* useMediaBlobRecorder.onStop(event): the result after it; the blob is built from
\* chunksRef.current and appended
OnStopResult(r) ==
    [startTime |-> result.startTime, blobs |-> Append(result.blobs, Blob(r, chunksRef))]

\* The stop event of session r is delivered.
StopEvent(r) ==
    /\ UNCHANGED outsideRecorder
    /\ recMounted
    /\ recEvents[r] = "flushed"
    /\ recEvents' = [recEvents EXCEPT ![r] = "done"]
    /\ result' = OnStopResult(r)
    /\ UNCHANGED << recMounted, stream, isRecording, recCleanup, mediaRecorderRef,
                    previousMediaRecorderRef, sessions, recState, nChunks, chunksRef,
                    recFirst, recOpen, cleanStart, firstStartedFresh, firstFresh,
                    streamReplaced, stopCalls, idleStops, delivered >>

NextRecorder ==
    \/ \E s \in Streams, b \in BOOLEAN : SetInputs(s, b)
    \/ RecUnmount
    \/ \E r \in Sessions : StartEvent(r)
    \/ \E r \in Sessions : DataEvent(r)
    \/ \E r \in Sessions : LastDataEvent(r)
    \/ \E r \in Sessions : StopEvent(r)

\* ---------------------------------- time-stamped stream manager: operations

StampRequests == 1..MaxStampRequests

InitStamp ==
    /\ tsMounted = TRUE
    /\ tsRan = FALSE
    /\ tsDeps = hashDeviceIds(NullConstraints)
    /\ tsClock = 1
    /\ lastInitTimestampRef = 0
    /\ tsStreamRef = 0
    /\ tsIssued = 0
    /\ initTimestamp = [r \in StampRequests |-> 0]
    /\ tsStatus = [r \in StampRequests |-> "none"]
    /\ tsStops = [r \in StampRequests |-> 0]

\* The clock reaches the next millisecond.
StampTick ==
    /\ UNCHANGED outsideStamp
    /\ tsClock < MaxStampClock
    /\ tsClock' = tsClock + 1
    /\ UNCHANGED << tsMounted, tsRan, tsDeps, lastInitTimestampRef, tsStreamRef, tsIssued,
                    initTimestamp, tsStatus, tsStops >>

\* closeCurrentStream(): the stop counts after it (the tag and the handle
\* become null)
CloseCurrentStream == stopStream(tsStops, tsStreamRef)

\* The hook is rendered with constraints c whose hash pair differs from the
\* last effect run's (or for the first time) and the effect runs: the cleanup
\* of the previous run, then the body.
StampRender(c) ==
    /\ UNCHANGED outsideStamp
    /\ tsMounted
    /\ ~tsRan \/ hashDeviceIds(c) # tsDeps
    /\ tsRan' = TRUE
    /\ tsDeps' = hashDeviceIds(c)
    /\ LET stops1 == IF tsRan THEN CloseCurrentStream ELSE tsStops
       IN  IF ~c.isNull
           THEN \* initTimestamp = Date.now(); getUserMedia(constraints)
                /\ tsIssued < MaxStampRequests
                /\ tsIssued' = tsIssued + 1
                /\ initTimestamp' = [initTimestamp EXCEPT ![tsIssued + 1] = tsClock]
                /\ lastInitTimestampRef' = tsClock
                /\ tsStatus' = [tsStatus EXCEPT ![tsIssued + 1] = "pending"]
                /\ tsStops' = stops1
                /\ tsStreamRef' = IF tsRan THEN 0 ELSE tsStreamRef
           ELSE \* closeCurrentStream()
                /\ lastInitTimestampRef' = 0
                /\ tsStops' = IF tsRan THEN stops1 ELSE CloseCurrentStream
                /\ tsStreamRef' = 0
                /\ UNCHANGED << tsIssued, initTimestamp, tsStatus >>
    /\ UNCHANGED << tsMounted, tsClock >>

\* The .then callback of request r runs with the acquired stream.
StampResolved(r) ==
    /\ UNCHANGED outsideStamp
    /\ tsStatus[r] = "pending"
    /\ tsStatus' = [tsStatus EXCEPT ![r] = "resolved"]
    /\ IF lastInitTimestampRef = initTimestamp[r]
       THEN \* This is the most recent stream
            /\ tsStops' = stopStream(tsStops, tsStreamRef)
            /\ tsStreamRef' = r
       ELSE \* Ignore this stream because it is not the most recent
            /\ tsStops' = stopStream(tsStops, r)
            /\ UNCHANGED tsStreamRef
    /\ UNCHANGED << tsMounted, tsRan, tsDeps, tsClock, lastInitTimestampRef, tsIssued,
                    initTimestamp >>

\* The .catch callback of request r: the error is logged.
StampRejected(r) ==
    /\ UNCHANGED outsideStamp
    /\ tsStatus[r] = "pending"
    /\ tsStatus' = [tsStatus EXCEPT ![r] = "rejected"]
    /\ UNCHANGED << tsMounted, tsRan, tsDeps, tsClock, lastInitTimestampRef, tsStreamRef,
                    tsIssued, initTimestamp, tsStops >>

\* The owning component unmounts: the cleanup of the last effect run is called.
StampUnmount ==
    /\ UNCHANGED outsideStamp
    /\ tsMounted
    /\ tsRan
    /\ tsMounted' = FALSE
    /\ lastInitTimestampRef' = 0
    /\ tsStops' = CloseCurrentStream
    /\ tsStreamRef' = 0
    /\ UNCHANGED << tsRan, tsDeps, tsClock, tsIssued, initTimestamp, tsStatus >>

NextStamp ==
    \/ StampTick
    \/ \E c \in ConstraintSet : StampRender(c)
    \/ \E r \in StampRequests : StampResolved(r)
    \/ \E r \in StampRequests : StampRejected(r)
    \/ StampUnmount

\* ------------------------------------ history-keyed stream manager: operations

KeyedRequests == 1..MaxKeyedRequests
KeyedStamps == 1..MaxKeyedClock

\* values of streamsRef.current[timestamp] other than a stream: the key is
\* missing; the string "pending"
NoEntry == 0
Pending == -1

InitKeyed ==
    /\ kMounted = TRUE
    /\ kRan = FALSE
    /\ kDeps = hashDeviceIds(NullConstraints)
    /\ kClock = 1
    /\ kTimestamp = 0
    /\ streamsRef = [k \in KeyedStamps |-> NoEntry]
    /\ mostRecentTimestamp = 0
    /\ currentStream = 0
    /\ kIssued = 0
    /\ kStamp = [r \in KeyedRequests |-> 0]
    /\ kWanted = [r \in KeyedRequests |-> FALSE]
    /\ kStatus = [r \in KeyedRequests |-> "none"]
    /\ kStops = [r \in KeyedRequests |-> 0]

\* The clock reaches the next millisecond.
KeyedTick ==
    /\ UNCHANGED outsideKeyed
    /\ kClock < MaxKeyedClock
    /\ kClock' = kClock + 1
    /\ UNCHANGED << kMounted, kRan, kDeps, kTimestamp, streamsRef, mostRecentTimestamp,
                    currentStream, kIssued, kStamp, kWanted, kStatus, kStops >>

\* stopOldStreams(streamsRef, timestamp): the record after it; every key older
\* than timestamp is deleted
StopOldRef(ref, timestamp) ==
    [k \in KeyedStamps |-> IF k < timestamp THEN NoEntry ELSE ref[k]]

\* stopOldStreams(streamsRef, timestamp): the stop counts after it; the streams
\* under the keys older than timestamp are stopped
StopOldStops(ref, stops, timestamp) ==
    [r \in KeyedRequests |->
        IF \E k \in KeyedStamps : k < timestamp /\ ref[k] = r
        THEN stopStream(stops, r)[r]
        ELSE stops[r]]

\* The hook is rendered with constraints c whose hash pair differs from the
\* last effect run's (or for the first time) and the effect runs: the cleanup
\* of the previous run, then the body up to the await of startStream.
KeyedRender(c) ==
    /\ UNCHANGED outsideKeyed
    /\ kMounted
    /\ ~kRan \/ hashDeviceIds(c) # kDeps
    /\ kIssued < MaxKeyedRequests
    /\ kRan' = TRUE
    /\ kDeps' = hashDeviceIds(c)
    /\ LET ref1 == IF kRan THEN StopOldRef(streamsRef, kTimestamp) ELSE streamsRef
           stops1 == IF kRan THEN StopOldStops(streamsRef, kStops, kTimestamp) ELSE kStops
           ref2 == StopOldRef(ref1, kClock)
           stops2 == StopOldStops(ref1, stops1, kClock)
       IN  /\ kTimestamp' = kClock
           /\ mostRecentTimestamp' = kClock
           /\ streamsRef' = [ref2 EXCEPT ![kClock] = Pending]
           /\ kStops' = stops2
    /\ kIssued' = kIssued + 1
    /\ kStamp' = [kStamp EXCEPT ![kIssued + 1] = kClock]
    /\ kWanted' = [kWanted EXCEPT ![kIssued + 1] = ~c.isNull]
    /\ kStatus' = [kStatus EXCEPT ![kIssued + 1] = "pending"]
    /\ UNCHANGED << kMounted, kClock, currentStream >>

\* setCurrentStream(stream) under mostRecentTimestamp === timestamp, for the
\* call r that delivers stream v (0: null)
KeyedCommit(r, v) ==
    IF kMounted /\ mostRecentTimestamp = kStamp[r] THEN v ELSE currentStream

\* startStream call r continues after its await with the stream of
\* getUserMedia (or with null when its constraints were null), and the .then
\* callback of the effect runs.
KeyedResolved(r) ==
    /\ UNCHANGED outsideKeyed
    /\ kStatus[r] = "pending"
    /\ kStatus' = [kStatus EXCEPT ![r] = "resolved"]
    /\ IF streamsRef[kStamp[r]] = Pending
       THEN /\ streamsRef' = [streamsRef EXCEPT ![kStamp[r]] =
                                 IF kWanted[r] THEN r ELSE NoEntry]
            /\ UNCHANGED kStops
       ELSE /\ kStops' = IF kWanted[r] THEN stopStream(kStops, r) ELSE kStops
            /\ UNCHANGED streamsRef
    /\ currentStream' = KeyedCommit(r, IF kWanted[r] THEN r ELSE 0)
    /\ UNCHANGED << kMounted, kRan, kDeps, kClock, kTimestamp, mostRecentTimestamp,
                    kIssued, kStamp, kWanted >>

\* getUserMedia of call r rejects: startStream logs and returns null, and the
\* .then callback of the effect runs.
KeyedRejected(r) ==
    /\ UNCHANGED outsideKeyed
    /\ kStatus[r] = "pending"
    /\ kWanted[r]
    /\ kStatus' = [kStatus EXCEPT ![r] = "rejected"]
    /\ currentStream' = KeyedCommit(r, 0)
    /\ UNCHANGED << kMounted, kRan, kDeps, kClock, kTimestamp, streamsRef,
                    mostRecentTimestamp, kIssued, kStamp, kWanted, kStops >>

\* The owning component unmounts: the cleanup of the last effect run is called.
KeyedUnmount ==
    /\ UNCHANGED outsideKeyed
    /\ kMounted
    /\ kRan
    /\ kMounted' = FALSE
    /\ streamsRef' = StopOldRef(streamsRef, kTimestamp)
    /\ kStops' = StopOldStops(streamsRef, kStops, kTimestamp)
    /\ UNCHANGED << kRan, kDeps, kClock, kTimestamp, mostRecentTimestamp, currentStream,
                    kIssued, kStamp, kWanted, kStatus >>

NextKeyed ==
    \/ KeyedTick
    \/ \E c \in ConstraintSet : KeyedRender(c)
    \/ \E r \in KeyedRequests : KeyedResolved(r)
    \/ \E r \in KeyedRequests : KeyedRejected(r)
    \/ KeyedUnmount

\* ------------------------------------- callback-based recorder: operations

CbSessions == 1..MaxCbSessions

InitCallbacks ==
    /\ cbMounted = TRUE
    /\ cbStream = 0
    /\ cbIsRecording = FALSE
    /\ cbCleanup = FALSE
    /\ cbRecorderRef = 0
    /\ cbPreviousRef = 0
    /\ cbSessions = 0
    /\ cbState = [r \in CbSessions |-> "none"]
    /\ cbEvents = [r \in CbSessions |-> "none"]
    /\ cbStarted = [r \in CbSessions |-> "none"]
    /\ cbReplaces = [r \in CbSessions |-> 0]

\* The cleanup returned by the effect: the recorder in mediaRecorderRef.current
\* is stopped when its state is "recording". Gives cbState after the cleanup.
CbCleanupState ==
    IF cbRecorderRef # 0 /\ cbState[cbRecorderRef] = "recording"
    THEN StopState(cbState, cbRecorderRef)
    ELSE cbState

\* The hook is rendered with a changed (stream, isRecording) pair and the effect
\* runs: the cleanup of the previous run (when it returned one), then the body.
\* The stream s is named as in Streams.
CbSetInputs(s, b) ==
    /\ UNCHANGED outsideCallbacks
    /\ cbMounted
    /\ << s, b >> # << cbStream, cbIsRecording >>
    /\ cbStream' = IF s = 0 THEN 0 ELSE 1
    /\ cbIsRecording' = b
    /\ LET state1 == IF cbCleanup THEN CbCleanupState ELSE cbState
       IN  IF s = 0
           THEN \* if (!stream) return;
                /\ cbCleanup' = FALSE
                /\ cbState' = state1
                /\ UNCHANGED << cbRecorderRef, cbPreviousRef, cbSessions, cbEvents,
                                cbReplaces >>
           ELSE IF b
           THEN \* new MediaRecorder(stream, options); recorder.start(timeSlice)
                /\ cbSessions < MaxCbSessions
                /\ cbCleanup' = TRUE
                /\ cbPreviousRef' = cbRecorderRef
                /\ cbRecorderRef' = cbSessions + 1
                /\ cbSessions' = cbSessions + 1
                /\ cbState' = [state1 EXCEPT ![cbSessions + 1] = "recording"]
                /\ cbEvents' = [cbEvents EXCEPT ![cbSessions + 1] = "start"]
                /\ cbReplaces' =
                      [cbReplaces EXCEPT ![cbSessions + 1] =
                          IF /\ cbIsRecording /\ cbStream # 0 /\ cbRecorderRef # 0
                             /\ cbState[cbRecorderRef] = "recording"
                          THEN cbRecorderRef ELSE 0]
           ELSE \* else if (mediaRecorderRef.current) { recorder.stop(); ... = null }
                /\ cbCleanup' = TRUE
                /\ cbState' = IF cbRecorderRef # 0 THEN StopState(state1, cbRecorderRef)
                              ELSE state1
                /\ cbRecorderRef' = 0
                /\ UNCHANGED << cbPreviousRef, cbSessions, cbEvents, cbReplaces >>
    /\ UNCHANGED << cbMounted, cbStarted >>

\* The owning component unmounts: the cleanup of the last effect run is called.
CbUnmount ==
    /\ UNCHANGED outsideCallbacks
    /\ cbMounted
    /\ cbMounted' = FALSE
    /\ cbState' = IF cbCleanup THEN CbCleanupState ELSE cbState
    /\ UNCHANGED << cbStream, cbIsRecording, cbCleanup, cbRecorderRef, cbPreviousRef,
                    cbSessions, cbEvents, cbStarted, cbReplaces >>

\* the callback the start listener calls: isResuming is read from
\* previousMediaRecorderRef.current when the event is delivered
StartCallback == IF cbPreviousRef # 0 THEN "onResume" ELSE "onStart"

\* The start event of session r is delivered.
CbStartEvent(r) ==
    /\ UNCHANGED outsideCallbacks
    /\ cbEvents[r] = "start"
    /\ cbEvents' = [cbEvents EXCEPT ![r] = "running"]
    /\ cbStarted' = [cbStarted EXCEPT ![r] = StartCallback]
    /\ UNCHANGED << cbMounted, cbStream, cbIsRecording, cbCleanup, cbRecorderRef,
                    cbPreviousRef, cbSessions, cbState, cbReplaces >>

\* The dataavailable event that stop() queues is delivered: onDataAvailable.
CbLastDataEvent(r) ==
    /\ UNCHANGED outsideCallbacks
    /\ cbEvents[r] = "running"
    /\ cbState[r] = "inactive"
    /\ cbEvents' = [cbEvents EXCEPT ![r] = "flushed"]
    /\ UNCHANGED << cbMounted, cbStream, cbIsRecording, cbCleanup, cbRecorderRef,
                    cbPreviousRef, cbSessions, cbState, cbStarted, cbReplaces >>

\* The stop event of session r is delivered: onStop.
CbStopEvent(r) ==
    /\ UNCHANGED outsideCallbacks
    /\ cbEvents[r] = "flushed"
    /\ cbEvents' = [cbEvents EXCEPT ![r] = "done"]
    /\ UNCHANGED << cbMounted, cbStream, cbIsRecording, cbCleanup, cbRecorderRef,
                    cbPreviousRef, cbSessions, cbState, cbStarted, cbReplaces >>

NextCallbacks ==
    \/ \E s \in Streams, b \in BOOLEAN : CbSetInputs(s, b)
    \/ CbUnmount
    \/ \E r \in CbSessions : CbStartEvent(r)
    \/ \E r \in CbSessions : CbLastDataEvent(r)
    \/ \E r \in CbSessions : CbStopEvent(r)

\* ------------------------------------------------ elapsed time: operations

\* the values of the updateInterval argument: null (0) and a number of ms
Intervals == {0, 1}

\* a clock that runs backwards from MaxNow
elapsedTimeCountdown(startTime, now) == IF startTime = 0 THEN 0 ELSE MaxNow - now

\* elapsedTime(result).elapsed when performance.now() reads now
elapsedTime(startTime, now) == IF startTime = 0 THEN 0 ELSE now - startTime

\* an interval that ignores isRecording
DelayAlways(isRec, upd) == upd

\* the delay passed to useInterval: isRecording ? updateInterval : null
Delay(isRec, upd) == IF isRec THEN upd ELSE 0

InitElapsed ==
    /\ etMounted = TRUE
    /\ etNow = 1
    /\ etStartTime = 0
    /\ etIsRecording = FALSE
    /\ updateInterval = 1
    /\ etStartDue = FALSE
    /\ elapsed = elapsedTime(0, 1)
    /\ etView = elapsedTime(0, 1)
    /\ etNeedsRender = FALSE
    /\ etEffectsPending = TRUE
    /\ etRan = FALSE
    /\ savedCallback = 0
    /\ delay = 0
    /\ interval = FALSE
    /\ elapsedStart = 0
    /\ etViewStart = 0

\* Time passes.
ElapsedAdvance ==
    /\ UNCHANGED outsideElapsed
    /\ etNow < MaxNow
    /\ etNow' = etNow + 1
    /\ UNCHANGED << etMounted, etStartTime, etIsRecording, updateInterval, etStartDue,
                    elapsed, etView, etNeedsRender, etEffectsPending, etRan, savedCallback,
                    delay, interval, elapsedStart, etViewStart >>

\* The hook is rendered, by its owner with new arguments or because of its own
\* setElapsed: the elapsed state is returned. The owner passes a new
\* result.startTime (started = TRUE) when the start event of a new recording was
\* delivered: its time stamp is the present time.
ElapsedRender(started, isRec, upd) ==
    /\ UNCHANGED outsideElapsed
    /\ etMounted
    /\ ~etEffectsPending
    /\ started => etStartDue
    /\ \/ etNeedsRender
       \/ started
       \/ << isRec, upd >> # << etIsRecording, updateInterval >>
    /\ etStartTime' = IF started THEN etNow ELSE etStartTime
    /\ etStartDue' = IF started THEN FALSE ELSE (etStartDue \/ (isRec /\ ~etIsRecording))
    /\ etIsRecording' = isRec
    /\ updateInterval' = upd
    /\ etView' = elapsed
    /\ etViewStart' = elapsedStart
    /\ etNeedsRender' = FALSE
    /\ etEffectsPending' = TRUE
    /\ UNCHANGED << etMounted, etNow, elapsed, etRan, savedCallback, delay, interval,
                    elapsedStart >>

\* The passive effects of the last render are flushed: savedCallback.current
\* is replaced (the callback is a new closure at every render); the interval
\* effect runs when the delay differs from the last run's: clearInterval, then
\* setInterval unless the delay is null.
ElapsedFlushEffects ==
    /\ UNCHANGED outsideElapsed
    /\ etEffectsPending
    /\ etEffectsPending' = FALSE
    /\ etRan' = TRUE
    /\ savedCallback' = etStartTime
    /\ delay' = Delay(etIsRecording, updateInterval)
    /\ interval' = IF etRan /\ Delay(etIsRecording, updateInterval) = delay
                   THEN interval
                   ELSE Delay(etIsRecording, updateInterval) # 0
    /\ UNCHANGED << etMounted, etNow, etStartTime, etIsRecording, updateInterval,
                    etStartDue, elapsed, etView, etNeedsRender, elapsedStart, etViewStart >>

\* The interval fires: savedCallback.current() takes a sample when the
\* startTime of its closure is set.
ElapsedTick ==
    /\ UNCHANGED outsideElapsed
    /\ interval
    /\ savedCallback # 0
    /\ elapsed' = elapsedTime(savedCallback, etNow)
    /\ elapsedStart' = savedCallback
    /\ etNeedsRender' = TRUE
    /\ UNCHANGED << etMounted, etNow, etStartTime, etIsRecording, updateInterval,
                    etStartDue, etView, etEffectsPending, etRan, savedCallback, delay,
                    interval, etViewStart >>

\* The owning component unmounts: clearInterval.
ElapsedUnmount ==
    /\ UNCHANGED outsideElapsed
    /\ etMounted
    /\ ~etEffectsPending
    /\ etMounted' = FALSE
    /\ interval' = FALSE
    /\ etNeedsRender' = FALSE
    /\ UNCHANGED << etNow, etStartTime, etIsRecording, updateInterval, etStartDue,
                    elapsed, etView, etEffectsPending, etRan, savedCallback, delay,
                    elapsedStart, etViewStart >>

NextElapsed ==
    \/ ElapsedAdvance
    \/ \E started \in BOOLEAN, isRec \in BOOLEAN, upd \in Intervals :
          ElapsedRender(started, isRec, upd)
    \/ ElapsedFlushEffects
    \/ ElapsedTick
    \/ ElapsedUnmount

\* ------------------------------------------------ device lists: operations

Enumerations == 1..MaxEnumerations

\* the empty audioInput, videoInput and audioOutput lists
NoDevices == 0

InitDevices ==
    /\ mdMounted = TRUE
    /\ mdClock = 1
    /\ mdWorld = 1
    /\ isPermissionGranted = FALSE
    /\ lastUpdate = 1
    /\ mdRendered = << FALSE, 1 >>
    /\ mdDeps = << FALSE, 1 >>
    /\ mdRan = FALSE
    /\ mdEffectsPending = TRUE
    /\ mdNeedsRender = FALSE
    /\ mdIssued = 0
    /\ mdStatus = [r \in Enumerations |-> "none"]
    /\ mdCancelled = [r \in Enumerations |-> FALSE]
    /\ devices = NoDevices
    /\ mdView = NoDevices
    /\ devicesFrom = 0
    /\ mdLogged = [r \in Enumerations |-> FALSE]
    /\ mdSucceeded = FALSE
    /\ mdStaleSettled = FALSE

\* Time passes.
DevicesTick ==
    /\ UNCHANGED outsideDevices
    /\ mdClock < MaxDevClock
    /\ mdClock' = mdClock + 1
    /\ UNCHANGED << mdStaleSettled, mdMounted, mdWorld, isPermissionGranted, lastUpdate, mdRendered, mdDeps,
                    mdRan, mdEffectsPending, mdNeedsRender, mdIssued, mdStatus,
                    mdCancelled, devices, mdView, devicesFrom, mdLogged, mdSucceeded >>

\* The hook is rendered, by its owner with a permission flag or because of a
\* state update: the devices state is returned.
DevicesRender(granted) ==
    /\ UNCHANGED outsideDevices
    /\ mdMounted
    /\ ~mdEffectsPending
    /\ mdNeedsRender \/ granted # isPermissionGranted
    /\ isPermissionGranted' = granted
    /\ mdRendered' = << granted, lastUpdate >>
    /\ mdView' = devices
    /\ mdNeedsRender' = FALSE
    /\ mdEffectsPending' = TRUE
    /\ UNCHANGED << mdStaleSettled, mdMounted, mdClock, mdWorld, lastUpdate, mdDeps, mdRan, mdIssued,
                    mdStatus, mdCancelled, devices, devicesFrom, mdLogged, mdSucceeded >>

\* The passive effects of the last render are flushed. When a dependency
\* differs from the last run's, the cleanup sets isCancelled of the previous
\* run and the body calls enumerateDevices with a flag of its own.
DevicesFlushEffects ==
    /\ UNCHANGED outsideDevices
    /\ mdEffectsPending
    /\ mdEffectsPending' = FALSE
    /\ mdRan' = TRUE
    /\ mdDeps' = mdRendered
    /\ IF mdRan /\ mdRendered = mdDeps
       THEN UNCHANGED << mdIssued, mdStatus, mdCancelled >>
       ELSE /\ mdIssued < MaxEnumerations
            /\ mdIssued' = mdIssued + 1
            /\ mdStatus' = [mdStatus EXCEPT ![mdIssued + 1] = "pending"]
            /\ mdCancelled' = [r \in Enumerations |-> mdCancelled[r] \/ r = mdIssued]
    /\ UNCHANGED << mdStaleSettled, mdMounted, mdClock, mdWorld, isPermissionGranted, lastUpdate,
                    mdRendered, mdNeedsRender, devices, mdView, devicesFrom, mdLogged,
                    mdSucceeded >>

\* reload(): setLastUpdate(Date.now()); React schedules a render when the
\* value differs from the state.
reload ==
    /\ lastUpdate' = mdClock
    /\ mdNeedsRender' = (mdNeedsRender \/ mdClock # lastUpdate)

\* The caller calls reload().
DevicesReload ==
    /\ UNCHANGED outsideDevices
    /\ mdMounted
    /\ mdRan
    /\ mdClock # lastUpdate
    /\ reload
    /\ UNCHANGED << mdStaleSettled, mdMounted, mdClock, mdWorld, isPermissionGranted, mdRendered, mdDeps,
                    mdRan, mdEffectsPending, mdIssued, mdStatus, mdCancelled, devices,
                    mdView, devicesFrom, mdLogged, mdSucceeded >>

\* The platform's device list changes and the devicechange listener, added
\* by the mount effect, calls reload().
DeviceChange ==
    /\ UNCHANGED outsideDevices
    /\ mdMounted
    /\ mdRan
    /\ mdWorld' = 3 - mdWorld
    /\ reload
    /\ UNCHANGED << mdStaleSettled, mdMounted, mdClock, isPermissionGranted, mdRendered, mdDeps, mdRan,
                    mdEffectsPending, mdIssued, mdStatus, mdCancelled, devices, mdView,
                    devicesFrom, mdLogged, mdSucceeded >>

\* a flag that is never set
NotCancelledAlways(r) == TRUE

\* if (!isCancelled)
NotCancelled(r) == ~mdCancelled[r]

\* onSuccess(data): setDevices(data)
OnSuccess(r, data) ==
    IF NotCancelled(r)
    THEN /\ devices' = data
         /\ devicesFrom' = r
         /\ mdNeedsRender' = TRUE
    ELSE UNCHANGED << devices, devicesFrom, mdNeedsRender >>

\* enumerateDevices of request r resolves with the platform's device list.
DevicesResolved(r) ==
    /\ UNCHANGED outsideDevices
    /\ mdStatus[r] = "pending"
    /\ mdStatus' = [mdStatus EXCEPT ![r] = "resolved"]
    /\ OnSuccess(r, mdWorld)
    /\ mdSucceeded' = (mdSucceeded \/ NotCancelled(r))
    /\ mdStaleSettled' = (mdStaleSettled \/ mdCancelled[r])
    /\ UNCHANGED << mdMounted, mdClock, mdWorld, isPermissionGranted, lastUpdate,
                    mdRendered, mdDeps, mdRan, mdEffectsPending, mdIssued, mdCancelled,
                    mdView, mdLogged >>

\* a rejection that leaves the async function
EnumerationThrown(r) ==
    /\ mdLogged' = mdLogged
    /\ UNCHANGED << devices, devicesFrom, mdNeedsRender >>

\* catch (error): console.error; the async function returns the empty lists
EnumerationCaught(r) ==
    /\ mdLogged' = [mdLogged EXCEPT ![r] = TRUE]
    /\ OnSuccess(r, NoDevices)

\* enumerateDevices of request r rejects.
DevicesFailed(r) ==
    /\ UNCHANGED outsideDevices
    /\ mdStatus[r] = "pending"
    /\ mdStatus' = [mdStatus EXCEPT ![r] = "failed"]
    /\ EnumerationCaught(r)
    /\ mdStaleSettled' = (mdStaleSettled \/ mdCancelled[r])
    /\ UNCHANGED << mdMounted, mdClock, mdWorld, isPermissionGranted, lastUpdate,
                    mdRendered, mdDeps, mdRan, mdEffectsPending, mdIssued, mdCancelled,
                    mdView, mdSucceeded >>

\* The owning component unmounts: the cleanup sets isCancelled of the last
\* run and the devicechange listener is removed.
DevicesUnmount ==
    /\ UNCHANGED outsideDevices
    /\ mdMounted
    /\ ~mdEffectsPending
    /\ mdMounted' = FALSE
    /\ mdNeedsRender' = FALSE
    /\ mdCancelled' = [r \in Enumerations |-> mdCancelled[r] \/ r = mdIssued]
    /\ UNCHANGED << mdStaleSettled, mdClock, mdWorld, isPermissionGranted, lastUpdate, mdRendered, mdDeps,
                    mdRan, mdEffectsPending, mdIssued, mdStatus, devices, mdView,
                    devicesFrom, mdLogged, mdSucceeded >>

NextDevices ==
    \/ DevicesTick
    \/ \E granted \in BOOLEAN : DevicesRender(granted)
    \/ DevicesFlushEffects
    \/ DevicesReload
    \/ DeviceChange
    \/ \E r \in Enumerations : DevicesResolved(r)
    \/ \E r \in Enumerations : DevicesFailed(r)
    \/ DevicesUnmount

\* ---------------------------------------------- devices request: operations

RequestStreams == 1..(MaxConstraintChanges + 1)

\* the constraints arguments: { audio, video }, audio alone or both
RequestConstraints == { << TRUE, FALSE >>, << TRUE, TRUE >> }

\* null passed to useMediaStream
NoStreamConstraints == << FALSE, FALSE >>

PermissionStates == { "granted", "prompt", "denied" }

\* a rejected query that leaves the state at null
PermissionOfNull(outcome) == IF outcome = "rejected" THEN "null" ELSE outcome

\* status === "fulfilled" ? value.state : "unsupported"
PermissionOf(outcome) == IF outcome = "rejected" THEN "unsupported" ELSE outcome

\* isRequestRequired
isRequestRequired(c, mic, cam) ==
    (c[1] /\ mic # "granted") \/ (c[2] /\ cam # "granted")

\* isPermissionsInitialized
isPermissionsInitialized(mic, cam) == mic # "null" /\ cam # "null"

\* a request that is made whether or not permission was granted
StreamConstraintsAlways(c, mic, cam, done) ==
    IF ~isPermissionsInitialized(mic, cam) \/ done THEN NoStreamConstraints ELSE c

\* the constraints passed to useMediaStream
StreamConstraints(c, mic, cam, done) ==
    IF ~isRequestRequired(c, mic, cam) THEN NoStreamConstraints
    ELSE IF ~isPermissionsInitialized(mic, cam) THEN NoStreamConstraints
    ELSE IF done THEN NoStreamConstraints
    ELSE c

\* isAudioInitialized && isVideoInitialized
isInitialized(c, lists) == (~c[1] \/ lists[1]) /\ (~c[2] \/ lists[2])

\* the state after the first render, for the browser's permissions p and the
\* constraints c of the owner
InitRequestAt(p, c) ==
    /\ rqMounted = TRUE
    /\ rqPlatform = p
    /\ rqConstraints = c
    /\ rqChanges = 0
    /\ rqRan = FALSE
    /\ rqEffectsPending = TRUE
    /\ rqNeedsRender = FALSE
    /\ micPermPromise = "none"
    /\ cameraPermPromise = "none"
    /\ rqQueryDelivered = FALSE
    /\ microphone = "null"
    /\ camera = "null"
    /\ isInitCompleted = FALSE
    /\ streamConstraints = NoStreamConstraints
    /\ rqStream = 0
    /\ rqPermissionGranted = FALSE
    /\ rqDevices = << FALSE, FALSE >>
    /\ rqStreamRef = 0
    /\ rqStreamDeps = NoStreamConstraints
    /\ rqRunRequest = 0
    /\ rqIssued = 0
    /\ rqWanted = [r \in RequestStreams |-> NoStreamConstraints]
    /\ rqStatus = [r \in RequestStreams |-> "none"]
    /\ rqCancelled = [r \in RequestStreams |-> FALSE]
    /\ rqStops = [r \in RequestStreams |-> 0]
    /\ rqLists = << FALSE, FALSE >>
    /\ rqEnumDeps = FALSE
    /\ rqEnumPending = FALSE

InitRequest == InitRequestAt(<< "prompt", "prompt" >>, << TRUE, TRUE >>)

\* the browser's permissions when the page is loaded are any
InitRequestPlatform ==
    \E p \in PermissionStates \X PermissionStates, c \in RequestConstraints :
        InitRequestAt(p, c)

\* The hook is rendered, by its owner with constraints or because of a state
\* update of one of its hooks.
RequestRender(c) ==
    /\ UNCHANGED outsideRequest
    /\ rqMounted
    /\ ~rqEffectsPending
    /\ rqNeedsRender \/ c # rqConstraints
    /\ c # rqConstraints => rqChanges < MaxConstraintChanges
    /\ rqConstraints' = c
    /\ rqChanges' = IF c # rqConstraints THEN rqChanges + 1 ELSE rqChanges
    /\ streamConstraints' = StreamConstraints(c, microphone, camera, isInitCompleted)
    /\ rqStream' = rqStreamRef
    /\ rqPermissionGranted' = (rqStreamRef # 0 \/ ~isRequestRequired(c, microphone, camera))
    /\ rqDevices' = rqLists
    /\ rqNeedsRender' = FALSE
    /\ rqEffectsPending' = TRUE
    /\ UNCHANGED << rqMounted, rqPlatform, rqRan, micPermPromise, cameraPermPromise,
                    rqQueryDelivered, microphone, camera, isInitCompleted, rqStreamRef,
                    rqStreamDeps, rqRunRequest, rqIssued, rqWanted, rqStatus, rqCancelled,
                    rqStops, rqLists, rqEnumDeps, rqEnumPending >>

\* the stream effect of useMediaStream runs for changed hashes: the cleanup
\* of the previous run sets its isCancelled, stops streamRef.current and
\* empties it; the body calls getUserMedia unless the constraints are null
StreamEffect ==
    IF rqRan /\ streamConstraints = rqStreamDeps
    THEN UNCHANGED << rqStreamRef, rqStreamDeps, rqRunRequest, rqIssued, rqWanted, rqStatus,
                      rqCancelled, rqStops >>
    ELSE /\ rqStreamDeps' = streamConstraints
         /\ rqStreamRef' = 0
         /\ rqCancelled' = [r \in RequestStreams |-> rqCancelled[r] \/ r = rqRunRequest]
         /\ rqStops' = [r \in RequestStreams |->
                          IF r = rqStreamRef THEN rqStops[r] + 1 ELSE rqStops[r]]
         /\ IF streamConstraints # NoStreamConstraints
            THEN /\ rqIssued' = rqIssued + 1
                 /\ rqRunRequest' = rqIssued + 1
                 /\ rqWanted' = [rqWanted EXCEPT ![rqIssued + 1] = streamConstraints]
                 /\ rqStatus' = [rqStatus EXCEPT ![rqIssued + 1] = "pending"]
            ELSE /\ rqRunRequest' = 0
                 /\ UNCHANGED << rqIssued, rqWanted, rqStatus >>

\* the enumeration effect of useMediaDevices runs for a changed
\* isPermissionGranted: the previous enumeration is cancelled
\* and enumerateDevices is called
EnumerationEffect ==
    IF rqRan /\ rqPermissionGranted = rqEnumDeps
    THEN UNCHANGED << rqEnumDeps, rqEnumPending >>
    ELSE /\ rqEnumDeps' = rqPermissionGranted
         /\ rqEnumPending' = TRUE

\* an effect that never completes the initialization
InitCompletedEffectNever == UNCHANGED << isInitCompleted, rqNeedsRender >>

\* the effect of useMediaInputDevicesRequest: setInitCompleted(true) when the
\* rendered lists are valid and the rendered stream is set. Its result
\* depends on its dependencies only, so running it at every flush calls
\* setInitCompleted(true) in the same states.
InitCompletedEffect ==
    IF isInitialized(rqConstraints, rqDevices) /\ rqStream # 0
    THEN /\ isInitCompleted' = TRUE
         /\ rqNeedsRender' = (rqNeedsRender \/ ~isInitCompleted)
    ELSE UNCHANGED << isInitCompleted, rqNeedsRender >>

\* The passive effects of the last render are flushed; at mount the
\* permission queries are issued.
RequestFlushEffects ==
    /\ UNCHANGED outsideRequest
    /\ rqEffectsPending
    /\ rqEffectsPending' = FALSE
    /\ rqRan' = TRUE
    /\ micPermPromise' = IF rqRan THEN micPermPromise ELSE "pending"
    /\ cameraPermPromise' = IF rqRan THEN cameraPermPromise ELSE "pending"
    /\ StreamEffect
    /\ EnumerationEffect
    /\ InitCompletedEffect
    /\ UNCHANGED << rqMounted, rqPlatform, rqConstraints, rqChanges, rqQueryDelivered,
                    microphone, camera, streamConstraints, rqStream, rqPermissionGranted,
                    rqDevices, rqLists >>

\* navigator.permissions.query for the microphone settles: with the
\* browser's permission, or rejected where the name is not supported.
MicrophoneQuerySettles(supported) ==
    /\ UNCHANGED outsideRequest
    /\ micPermPromise = "pending"
    /\ micPermPromise' = IF supported THEN rqPlatform[1] ELSE "rejected"
    /\ UNCHANGED << rqMounted, rqPlatform, rqConstraints, rqChanges, rqRan,
                    rqEffectsPending, rqNeedsRender, cameraPermPromise, rqQueryDelivered,
                    microphone, camera, isInitCompleted, streamConstraints, rqStream,
                    rqPermissionGranted, rqDevices, rqStreamRef,
                    rqStreamDeps, rqRunRequest, rqIssued, rqWanted, rqStatus, rqCancelled,
                    rqStops, rqLists, rqEnumDeps, rqEnumPending >>

\* navigator.permissions.query for the camera settles.
CameraQuerySettles(supported) ==
    /\ UNCHANGED outsideRequest
    /\ cameraPermPromise = "pending"
    /\ cameraPermPromise' = IF supported THEN rqPlatform[2] ELSE "rejected"
    /\ UNCHANGED << rqMounted, rqPlatform, rqConstraints, rqChanges, rqRan,
                    rqEffectsPending, rqNeedsRender, micPermPromise, rqQueryDelivered,
                    microphone, camera, isInitCompleted, streamConstraints, rqStream,
                    rqPermissionGranted, rqDevices, rqStreamRef,
                    rqStreamDeps, rqRunRequest, rqIssued, rqWanted, rqStatus, rqCancelled,
                    rqStops, rqLists, rqEnumDeps, rqEnumPending >>

\* Promise.allSettled resolves and onSuccess sets both states, unless the
\* effect was cancelled by the unmount.
QueriesSettled ==
    /\ UNCHANGED outsideRequest
    /\ ~rqQueryDelivered
    /\ micPermPromise \notin { "none", "pending" }
    /\ cameraPermPromise \notin { "none", "pending" }
    /\ rqQueryDelivered' = TRUE
    /\ IF rqMounted
       THEN /\ microphone' = PermissionOf(micPermPromise)
            /\ camera' = PermissionOf(cameraPermPromise)
            /\ rqNeedsRender' = TRUE
       ELSE UNCHANGED << microphone, camera, rqNeedsRender >>
    /\ UNCHANGED << rqMounted, rqPlatform, rqConstraints, rqChanges, rqRan,
                    rqEffectsPending, micPermPromise, cameraPermPromise, isInitCompleted,
                    streamConstraints, rqStream, rqPermissionGranted, rqDevices, rqStreamRef, rqStreamDeps, rqRunRequest, rqIssued,
                    rqWanted, rqStatus, rqCancelled, rqStops, rqLists,
                    rqEnumDeps, rqEnumPending >>

\* getUserMedia of request r resolves: the user has granted, or had granted,
\* every capability it asks for. A cancelled request's stream is stopped, the
\* stream of the current one is stored and a render is forced.
RequestResolved(r) ==
    /\ UNCHANGED outsideRequest
    /\ rqStatus[r] = "pending"
    /\ \A k \in 1..2 : rqWanted[r][k] => rqPlatform[k] # "denied"
    /\ rqStatus' = [rqStatus EXCEPT ![r] = "resolved"]
    /\ rqPlatform' = [k \in 1..2 |-> IF rqWanted[r][k] THEN "granted" ELSE rqPlatform[k]]
    /\ IF rqCancelled[r]
       THEN /\ rqStops' = [rqStops EXCEPT ![r] = rqStops[r] + 1]
            /\ UNCHANGED << rqStreamRef, rqNeedsRender >>
       ELSE /\ rqStreamRef' = r
            /\ rqNeedsRender' = TRUE
            /\ UNCHANGED rqStops
    /\ UNCHANGED << rqMounted, rqConstraints, rqChanges, rqRan, rqEffectsPending,
                    micPermPromise, cameraPermPromise, rqQueryDelivered, microphone, camera,
                    isInitCompleted, streamConstraints, rqStream, rqPermissionGranted,
                    rqDevices, rqStreamDeps, rqRunRequest, rqIssued,
                    rqWanted, rqCancelled, rqLists, rqEnumDeps,
                    rqEnumPending >>

\* getUserMedia of request r rejects (permission denied, no device): logged.
RequestRejected(r) ==
    /\ UNCHANGED outsideRequest
    /\ rqStatus[r] = "pending"
    /\ rqStatus' = [rqStatus EXCEPT ![r] = "failed"]
    /\ UNCHANGED << rqMounted, rqPlatform, rqConstraints, rqChanges, rqRan,
                    rqEffectsPending, rqNeedsRender, micPermPromise, cameraPermPromise,
                    rqQueryDelivered, microphone, camera, isInitCompleted,
                    streamConstraints, rqStream, rqPermissionGranted, rqDevices, rqStreamRef, rqStreamDeps, rqRunRequest, rqIssued,
                    rqWanted, rqCancelled, rqStops, rqLists, rqEnumDeps,
                    rqEnumPending >>

\* The enumeration of the last run settles: the lists of a capability hold
\* device ids when the browser's permission for it is granted; a failed
\* enumeration leaves the empty lists.
EnumerationSettles(ok) ==
    /\ UNCHANGED outsideRequest
    /\ rqMounted
    /\ rqEnumPending
    /\ rqEnumPending' = FALSE
    /\ rqLists' = [k \in 1..2 |-> ok /\ rqPlatform[k] = "granted"]
    /\ rqNeedsRender' = TRUE
    /\ UNCHANGED << rqMounted, rqPlatform, rqConstraints, rqChanges, rqRan,
                    rqEffectsPending, micPermPromise, cameraPermPromise, rqQueryDelivered,
                    microphone, camera, isInitCompleted, streamConstraints, rqStream,
                    rqPermissionGranted, rqDevices, rqStreamRef,
                    rqStreamDeps, rqRunRequest, rqIssued, rqWanted, rqStatus, rqCancelled,
                    rqStops, rqEnumDeps >>

\* The owning component unmounts: the cleanups set the isCancelled flags and
\* stop streamRef.current.
RequestUnmount ==
    /\ UNCHANGED outsideRequest
    /\ rqMounted
    /\ ~rqEffectsPending
    /\ rqMounted' = FALSE
    /\ rqNeedsRender' = FALSE
    /\ rqEnumPending' = FALSE
    /\ rqStreamRef' = 0
    /\ rqCancelled' = [r \in RequestStreams |-> rqCancelled[r] \/ r = rqRunRequest]
    /\ rqStops' = [r \in RequestStreams |->
                     IF r = rqStreamRef THEN rqStops[r] + 1 ELSE rqStops[r]]
    /\ UNCHANGED << rqPlatform, rqConstraints, rqChanges, rqRan, rqEffectsPending,
                    micPermPromise, cameraPermPromise, rqQueryDelivered, microphone, camera,
                    isInitCompleted, streamConstraints, rqStream, rqPermissionGranted,
                    rqDevices, rqStreamDeps, rqRunRequest, rqIssued,
                    rqWanted, rqStatus, rqLists, rqEnumDeps >>

NextRequest ==
    \/ \E c \in RequestConstraints : RequestRender(c)
    \/ RequestFlushEffects
    \/ \E supported \in BOOLEAN : MicrophoneQuerySettles(supported)
    \/ \E supported \in BOOLEAN : CameraQuerySettles(supported)
    \/ QueriesSettled
    \/ \E r \in RequestStreams : RequestResolved(r)
    \/ \E r \in RequestStreams : RequestRejected(r)
    \/ \E ok \in BOOLEAN : EnumerationSettles(ok)
    \/ RequestUnmount

\* ---------------------------------------------------- analyser: operations

Sources == 1..MaxSources

InitAnalyser ==
    /\ anMounted = TRUE
    /\ anContext = 0
    /\ anSource = 0
    /\ analyserRef = 0
    /\ anEffectsPending = TRUE
    /\ anRan = FALSE
    /\ anDeps = << 0, 0 >>
    /\ anCleanup = 0
    /\ anConnects = [s \in Sources |-> 0]
    /\ anReplaced = FALSE

\* The hook is rendered with an audio context (once initialized it stays)
\* and a source: the analyser is created when there is none and the context
\* is set.
AnalyserRender(ctx, src) ==
    /\ UNCHANGED outsideAnalyser
    /\ anMounted
    /\ ~anEffectsPending
    /\ ctx >= anContext
    /\ << ctx, src >> # << anContext, anSource >>
    /\ anContext' = ctx
    /\ anSource' = src
    /\ analyserRef' = IF analyserRef = 0 /\ ctx # 0 THEN 1 ELSE analyserRef
    /\ anEffectsPending' = TRUE
    /\ UNCHANGED << anMounted, anRan, anDeps, anCleanup, anConnects, anReplaced >>

\* a cleanup that leaves the old source connected
disconnectNever(connects, s) == connects

\* the cleanup of the effect: source.disconnect(ref.current)
disconnect(connects, s) ==
    IF s = 0 \/ analyserRef = 0
    THEN connects
    ELSE [connects EXCEPT ![s] = 0]

\* the body of the effect: source.connect(ref.current)
connect(connects, s) ==
    IF s = 0 \/ analyserRef = 0
    THEN connects
    ELSE [connects EXCEPT ![s] = IF @ < MaxConnects THEN @ + 1 ELSE @]

\* The passive effects of the last render are flushed: when audioContext or
\* source differs from the last run's, the cleanup of the last run disconnects
\* its source and the body connects the new one.
AnalyserFlushEffects ==
    /\ UNCHANGED outsideAnalyser
    /\ anEffectsPending
    /\ anEffectsPending' = FALSE
    /\ anRan' = TRUE
    /\ anDeps' = << anContext, anSource >>
    /\ IF anRan /\ anDeps = << anContext, anSource >>
       THEN UNCHANGED << anCleanup, anConnects, anReplaced >>
       ELSE /\ anConnects' = connect(disconnect(anConnects, anCleanup), anSource)
            /\ anCleanup' = IF analyserRef = 0 THEN 0 ELSE anSource
            /\ anReplaced' = (anReplaced \/ (anCleanup # 0 /\ anSource # 0
                                              /\ anSource # anCleanup /\ analyserRef # 0))
    /\ UNCHANGED << anMounted, anContext, anSource, analyserRef >>

\* The owning component unmounts: the cleanup of the last run disconnects
\* its source.
AnalyserUnmount ==
    /\ UNCHANGED outsideAnalyser
    /\ anMounted
    /\ ~anEffectsPending
    /\ anMounted' = FALSE
    /\ anConnects' = disconnect(anConnects, anCleanup)
    /\ anCleanup' = 0
    /\ UNCHANGED << anContext, anSource, analyserRef, anEffectsPending, anRan, anDeps,
                    anReplaced >>

NextAnalyser ==
    \/ \E ctx \in 0..1, src \in 0..MaxSources : AnalyserRender(ctx, src)
    \/ AnalyserFlushEffects
    \/ AnalyserUnmount

\* ---------------------------------------- audio context provider: operations

\* context 1 is the one the owner gives; the others are created by
\* initAudioContext with new AudioContext()
AudioContexts == 1..(MaxPropChanges + 2)

\* the state after the first render: useState(audioContext || null)
InitProviderAt(given, state) ==
    /\ acMounted = TRUE
    /\ audioContext = given
    /\ acPropChanges = 0
    /\ acState = [c \in AudioContexts |-> IF c = 1 THEN state ELSE "none"]
    /\ chosenAudioContext = given
    /\ acChosen = given
    /\ acNeedsRender = FALSE
    /\ acEffectsPending = TRUE
    /\ acRan = FALSE
    /\ acDeps = << given, given >>
    /\ acListeners = << >>
    /\ acInteractions = 0

InitProvider == InitProviderAt(0, "suspended")

\* the owner gives a context or none; its context is in any state
InitProviderAny ==
    \E given \in 0..1, state \in { "suspended", "running", "closed" } :
        InitProviderAt(given, state)

\* The provider is rendered, by its owner with an audioContext prop or
\* because of setChosenAudioContext.
ProviderRender(given) ==
    /\ UNCHANGED outsideProvider
    /\ acMounted
    /\ ~acEffectsPending
    /\ acNeedsRender \/ given # audioContext
    /\ given # audioContext => acPropChanges < MaxPropChanges
    /\ audioContext' = given
    /\ acPropChanges' = IF given # audioContext THEN acPropChanges + 1 ELSE acPropChanges
    /\ acChosen' = chosenAudioContext
    /\ acNeedsRender' = FALSE
    /\ acEffectsPending' = TRUE
    /\ UNCHANGED << acMounted, acState, chosenAudioContext, acRan, acDeps, acListeners,
                    acInteractions >>

\* the context initAudioContext works on: the given one, or a new one when
\* none is given or the given one is closed
InitTarget ==
    IF audioContext = 0 \/ acState[1] = "closed"
    THEN CHOOSE c \in AudioContexts : c > 1 /\ acState[c] = "none"
                                      /\ \A d \in 2..(c - 1) : acState[d] # "none"
    ELSE 1

\* if (!chosenAudioContext)
NeedsInit == acChosen = 0

\* initAudioContext(audioContext, onInit) where the context it works on is in
\* state s: a suspended context gets the onUserInteraction listeners, another
\* one is passed to onInit at once
initAudioContext(s) ==
    /\ acState' = [acState EXCEPT ![InitTarget] = s]
    /\ IF s = "suspended"
       THEN /\ acListeners' = Append(acListeners, InitTarget)
            /\ UNCHANGED << chosenAudioContext, acNeedsRender >>
       ELSE /\ chosenAudioContext' = InitTarget
            /\ acNeedsRender' = TRUE
            /\ UNCHANGED acListeners

\* The passive effects of the last render are flushed: for changed
\* [audioContext, chosenAudioContext] the effect calls initAudioContext when
\* no context is chosen. A context made by new AudioContext() starts
\* suspended or running.
ProviderFlushEffects ==
    /\ UNCHANGED outsideProvider
    /\ acEffectsPending
    /\ acEffectsPending' = FALSE
    /\ acRan' = TRUE
    /\ acDeps' = << audioContext, acChosen >>
    /\ IF (~acRan \/ acDeps # << audioContext, acChosen >>) /\ NeedsInit
       THEN IF InitTarget = 1
            THEN initAudioContext(acState[1])
            ELSE \E s \in { "suspended", "running" } : initAudioContext(s)
       ELSE UNCHANGED << acState, chosenAudioContext, acNeedsRender, acListeners >>
    /\ UNCHANGED << acMounted, audioContext, acPropChanges, acChosen, acInteractions >>

\* the contexts of the listeners in s that are suspended are resumed
Resumed(s) ==
    [c \in AudioContexts |->
        IF acState[c] = "suspended" /\ \E i \in 1..Len(s) : s[i] = c
        THEN "running"
        ELSE acState[c]]

\* The user clicks, presses a key or touches the document: every registered
\* onUserInteraction resumes its context when it is suspended, passes it to
\* onInit and removes its listeners.
UserInteraction ==
    /\ UNCHANGED outsideProvider
    /\ acInteractions < MaxInteractions
    /\ acInteractions' = acInteractions + 1
    /\ acState' = Resumed(acListeners)
    /\ acListeners' = << >>
    /\ IF acListeners # << >> /\ acMounted
       THEN /\ chosenAudioContext' = acListeners[Len(acListeners)]
            /\ acNeedsRender' = TRUE
       ELSE UNCHANGED << chosenAudioContext, acNeedsRender >>
    /\ UNCHANGED << acMounted, audioContext, acPropChanges, acChosen, acEffectsPending,
                    acRan, acDeps >>

\* The provider unmounts: the effect has no cleanup.
ProviderUnmount ==
    /\ UNCHANGED outsideProvider
    /\ acMounted
    /\ ~acEffectsPending
    /\ acMounted' = FALSE
    /\ acNeedsRender' = FALSE
    /\ UNCHANGED << audioContext, acPropChanges, acState, chosenAudioContext, acChosen,
                    acEffectsPending, acRan, acDeps, acListeners, acInteractions >>

NextProvider ==
    \/ \E given \in 0..1 : ProviderRender(given)
    \/ ProviderFlushEffects
    \/ UserInteraction
    \/ ProviderUnmount

\* --------------------------------------------------- blob URLs: operations

\* a blobs array and its length
BlobArrays == (1..MaxBlobArrays) \X (0..MaxBlobs)

\* the empty urls array
NoUrls == << 0, 0 >>

InitBlobUrls ==
    /\ buMounted = TRUE
    /\ blobs = << 1, 0 >>
    /\ urls = NoUrls
    /\ buUrls = NoUrls
    /\ buNeedsRender = FALSE
    /\ buEffectsPending = TRUE
    /\ buRan = FALSE
    /\ buDeps = NoUrls
    /\ buCleanup = NoUrls
    /\ buCreated = {}
    /\ buRevoked = {}

\* The hook is rendered, by its owner or because of setUrls: the urls state
\* is returned. The owner passes the array of before, the same array after a
\* push, or a new array.
BlobUrlsRender(b) ==
    /\ UNCHANGED outsideBlobUrls
    /\ buMounted
    /\ ~buEffectsPending
    /\ \/ b = blobs /\ buNeedsRender
       \/ b[1] = blobs[1] /\ b[2] = blobs[2] + 1
       \/ b[1] = blobs[1] + 1
    /\ blobs' = b
    /\ buUrls' = urls
    /\ buNeedsRender' = FALSE
    /\ buEffectsPending' = TRUE
    /\ UNCHANGED << buMounted, urls, buRan, buDeps, buCleanup, buCreated, buRevoked >>

\* urls.forEach((url) => URL.revokeObjectURL(url)) for the urls of a closure
revokeObjectURLs(held) == IF held[2] = 0 THEN buRevoked ELSE buRevoked \cup { held }

\* The passive effects of the last render are flushed: for a changed blobs
\* array or length the cleanup of the last run revokes the urls of its closure, and the
\* body creates the URLs of the new array; its cleanup holds the urls of
\* this render.
BlobUrlsFlushEffects ==
    /\ UNCHANGED outsideBlobUrls
    /\ buEffectsPending
    /\ buEffectsPending' = FALSE
    /\ buRan' = TRUE
    /\ buDeps' = blobs
    /\ IF buRan /\ buDeps = blobs
       THEN UNCHANGED << urls, buNeedsRender, buCleanup, buCreated, buRevoked >>
       ELSE /\ buRevoked' = IF buRan THEN revokeObjectURLs(buCleanup) ELSE buRevoked
            /\ buCreated' = IF blobs[2] = 0 THEN buCreated ELSE buCreated \cup { blobs }
            /\ urls' = blobs
            /\ buNeedsRender' = TRUE
            /\ buCleanup' = buUrls
    /\ UNCHANGED << buMounted, blobs, buUrls >>

\* The owning component unmounts: the cleanup of the last run revokes the
\* urls of its closure.
BlobUrlsUnmount ==
    /\ UNCHANGED outsideBlobUrls
    /\ buMounted
    /\ ~buEffectsPending
    /\ buMounted' = FALSE
    /\ buNeedsRender' = FALSE
    /\ buRevoked' = revokeObjectURLs(buCleanup)
    /\ UNCHANGED << blobs, urls, buUrls, buEffectsPending, buRan, buDeps, buCleanup,
                    buCreated >>

NextBlobUrls ==
    \/ \E b \in BlobArrays : BlobUrlsRender(b)
    \/ BlobUrlsFlushEffects
    \/ BlobUrlsUnmount

\* ------------------------------------------- elapsedTime(result): operations

\* elapsedTime(undefined)
NoResult == -2

\* the clock readings and start times, in ms, around the second and minute
\* boundaries
ViewTimes == { 0, 1, 999, 1000, 1001, 59999, 60000, 61001, 125250 }

\* { elapsed: 0, minutes: 0, seconds: 0, millis: 0 }
ZeroView == [elapsed |-> 0, minutes |-> 0, seconds |-> 0, millis |-> 0]

\* minutes, seconds and millis of an elapsed time
Decompose(e) ==
    [elapsed |-> e,
     minutes |-> e \div 60000,
     seconds |-> (e % 60000) \div 1000,
     millis |-> e % 1000]

\* elapsedTime(result) when performance.now() reads now: a missing result and
\* a falsy startTime (null or 0) give the zero view
elapsedTimeView(startTime, now) ==
    IF startTime = NoResult \/ startTime = NullTime \/ startTime = 0
    THEN ZeroView
    ELSE Decompose(now - startTime)

InitElapsedView ==
    /\ evStart = NoResult
    /\ evNow = 0
    /\ evComputed = FALSE
    /\ evView = ZeroView

\* elapsedTime is called.
ElapsedViewCall ==
    /\ UNCHANGED outsideElapsedView
    /\ ~evComputed
    /\ evView' = elapsedTimeView(evStart, evNow)
    /\ evComputed' = TRUE
    /\ UNCHANGED << evStart, evNow >>

\* Another result is given at another time, not before its start.
ElapsedViewInput(startTime, now) ==
    /\ UNCHANGED outsideElapsedView
    /\ evComputed
    /\ now >= startTime
    /\ evStart' = startTime
    /\ evNow' = now
    /\ evComputed' = FALSE
    /\ UNCHANGED evView

NextElapsedView ==
    \/ ElapsedViewCall
    \/ \E startTime \in ViewTimes \cup { NoResult, NullTime }, now \in ViewTimes :
          ElapsedViewInput(startTime, now)

\* ------------------------------------- hashDeviceIds(constraints): operations

\* the audio members hashDeviceIds is applied to: missing, the booleans, a
\* descriptor without deviceId, with the empty deviceId, with a string deviceId
\* and with an { exact } deviceId
HashedAudio ==
    { Absent, Bool(FALSE), Bool(TRUE), Desc(NoDeviceId), Desc(StrId("")),
      Desc(StrId("default")), Desc(StrId("true")), Desc(StrId("mic-2")),
      Desc(ExactId("mic-2")) }

HashedVideo == { Absent, Bool(TRUE), Desc(StrId("cam-1")) }

HashedConstraints ==
    {NullConstraints} \cup { Constraints(a, v) : a \in HashedAudio, v \in HashedVideo }

InitHashPair ==
    /\ hpLeft = NullConstraints
    /\ hpRight = NullConstraints
    /\ hpComputed = FALSE
    /\ hpHashes = << hashDeviceIds(NullConstraints), hashDeviceIds(NullConstraints) >>

\* hashDeviceIds is called for both specifications.
HashPairCall ==
    /\ UNCHANGED outsideHashPair
    /\ ~hpComputed
    /\ hpHashes' = << hashDeviceIds(hpLeft), hashDeviceIds(hpRight) >>
    /\ hpComputed' = TRUE
    /\ UNCHANGED << hpLeft, hpRight >>

\* Two other specifications are given; the results of the calls before are
\* not kept.
HashPairInput(c, d) ==
    /\ UNCHANGED outsideHashPair
    /\ hpComputed
    /\ hpLeft' = c
    /\ hpRight' = d
    /\ hpComputed' = FALSE
    /\ hpHashes' = << hashDeviceIds(NullConstraints), hashDeviceIds(NullConstraints) >>

NextHashPair ==
    \/ HashPairCall
    \/ \E c \in HashedConstraints, d \in HashedConstraints : HashPairInput(c, d)

\* ------------------------------------------------ useAsyncEffect: operations

Calls == 1..MaxCalls

\* what the caller passes as onError and as onFinally: a function, a
\* dependency list, or nothing
ArgKinds == { "function", "array", "undefined" }

\* the values of the caller's dependency list
DepValues == { 0, 1 }

\* errorActuallyDeps || finallyActuallyDeps: a dependency list is given when
\* onError or onFinally is an array, or deps is given (an array is truthy)
Dependencies(onErrorKind, onFinallyKind, depsGiven, d) ==
    LET errorActuallyDeps == onErrorKind = "array" \/ depsGiven
        finallyActuallyDeps == onFinallyKind = "array" \/ depsGiven
    IN  [given |-> errorActuallyDeps \/ finallyActuallyDeps, value |-> d]

InitAsyncEffect ==
    /\ aeMounted = TRUE
    /\ aeDeps = Dependencies("function", "function", TRUE, 0)
    /\ aeOnError = TRUE
    /\ aeOnFinally = TRUE
    /\ aeEffectDeps = [ran |-> FALSE, given |-> FALSE, value |-> 0]
    /\ aeEffectsPending = TRUE
    /\ aeIssued = 0
    /\ aeStage = [c \in Calls |-> "none"]
    /\ aeOutcome = [c \in Calls |-> "none"]
    /\ aeCancelled = [c \in Calls |-> FALSE]
    /\ aeHandlers = [c \in Calls |-> [onError |-> FALSE, onFinally |-> FALSE]]
    /\ aeSuccess = [c \in Calls |-> 0]
    /\ aeError = [c \in Calls |-> 0]
    /\ aeFinally = [c \in Calls |-> 0]
    /\ aeCancelledAtSettle = {}

\* The hook is rendered with the given arguments (the first render, which
\* InitAsyncEffect describes, passes both handlers and a dependency list).
AsyncRender(onErrorKind, onFinallyKind, depsGiven, d) ==
    /\ UNCHANGED outsideAsyncEffect
    /\ aeMounted
    /\ ~aeEffectsPending
    /\ aeDeps' = Dependencies(onErrorKind, onFinallyKind, depsGiven, d)
    /\ aeOnError' = (onErrorKind = "function")
    /\ aeOnFinally' = (onFinallyKind = "function")
    /\ aeEffectsPending' = TRUE
    /\ UNCHANGED << aeMounted, aeEffectDeps, aeIssued, aeStage, aeOutcome, aeCancelled,
                    aeHandlers, aeSuccess, aeError, aeFinally, aeCancelledAtSettle >>

\* useEffect(..., dependencies): without a dependency list the effect runs
\* after every render, with one when it is the first run or the value changed
AsyncDepsChanged ==
    \/ ~aeEffectDeps.ran
    \/ ~aeEffectDeps.given
    \/ ~aeDeps.given
    \/ aeEffectDeps.value # aeDeps.value

\* The cleanup returned by the effect: isCancelled = true for the call of the
\* last effect run (the call made last).
AsyncCleanup == IF aeIssued = 0 THEN aeCancelled ELSE [aeCancelled EXCEPT ![aeIssued] = TRUE]

\* The passive effects of the last render are flushed: the cleanup of the
\* previous run, then asyncFunction() with the handlers of this render.
AsyncFlushEffects ==
    /\ UNCHANGED outsideAsyncEffect
    /\ aeEffectsPending
    /\ aeEffectsPending' = FALSE
    /\ IF ~AsyncDepsChanged
       THEN UNCHANGED << aeEffectDeps, aeIssued, aeStage, aeCancelled, aeHandlers >>
       ELSE /\ aeIssued < MaxCalls
            /\ aeEffectDeps' = [ran |-> TRUE, given |-> aeDeps.given, value |-> aeDeps.value]
            /\ aeCancelled' = AsyncCleanup
            /\ aeIssued' = aeIssued + 1
            /\ aeStage' = [aeStage EXCEPT ![aeIssued + 1] = "pending"]
            /\ aeHandlers' = [aeHandlers EXCEPT ![aeIssued + 1] =
                                 [onError |-> aeOnError, onFinally |-> aeOnFinally]]
    /\ UNCHANGED << aeMounted, aeDeps, aeOnError, aeOnFinally, aeOutcome, aeSuccess, aeError,
                    aeFinally, aeCancelledAtSettle >>

\* The promise of call c settles: fulfilled or rejected.
AsyncSettle(c, outcome) ==
    /\ UNCHANGED outsideAsyncEffect
    /\ aeStage[c] = "pending"
    /\ aeStage' = [aeStage EXCEPT ![c] = "then"]
    /\ aeOutcome' = [aeOutcome EXCEPT ![c] = outcome]
    /\ aeCancelledAtSettle' = IF aeCancelled[c] THEN aeCancelledAtSettle \cup {c}
                              ELSE aeCancelledAtSettle
    /\ UNCHANGED << aeMounted, aeDeps, aeOnError, aeOnFinally, aeEffectDeps, aeEffectsPending,
                    aeIssued, aeCancelled, aeHandlers, aeSuccess, aeError, aeFinally >>

\* variant of the check: the flag is not read
AsyncNotCancelledAlways(c) == TRUE

\* !isCancelled, read by a callback of call c when it runs
AsyncNotCancelled(c) == ~aeCancelled[c]

\* The .then callback of call c: it runs for a fulfilled promise only.
AsyncThen(c) ==
    /\ UNCHANGED outsideAsyncEffect
    /\ aeStage[c] = "then"
    /\ aeStage' = [aeStage EXCEPT ![c] = "catch"]
    /\ aeSuccess' = IF aeOutcome[c] = "fulfilled" /\ AsyncNotCancelled(c)
                    THEN [aeSuccess EXCEPT ![c] = @ + 1]
                    ELSE aeSuccess
    /\ UNCHANGED << aeMounted, aeDeps, aeOnError, aeOnFinally, aeEffectDeps, aeEffectsPending,
                    aeIssued, aeOutcome, aeCancelled, aeHandlers, aeError, aeFinally,
                    aeCancelledAtSettle >>

\* The .catch callback of call c: it runs for a rejected promise only (the
\* callbacks given to the hook do not throw).
AsyncCatch(c) ==
    /\ UNCHANGED outsideAsyncEffect
    /\ aeStage[c] = "catch"
    /\ aeStage' = [aeStage EXCEPT ![c] = "finally"]
    /\ aeError' = IF aeOutcome[c] = "rejected" /\ AsyncNotCancelled(c) /\ aeHandlers[c].onError
                  THEN [aeError EXCEPT ![c] = @ + 1]
                  ELSE aeError
    /\ UNCHANGED << aeMounted, aeDeps, aeOnError, aeOnFinally, aeEffectDeps, aeEffectsPending,
                    aeIssued, aeOutcome, aeCancelled, aeHandlers, aeSuccess, aeFinally,
                    aeCancelledAtSettle >>

\* The .finally callback of call c.
AsyncFinally(c) ==
    /\ UNCHANGED outsideAsyncEffect
    /\ aeStage[c] = "finally"
    /\ aeStage' = [aeStage EXCEPT ![c] = "done"]
    /\ aeFinally' = IF AsyncNotCancelled(c) /\ aeHandlers[c].onFinally
                    THEN [aeFinally EXCEPT ![c] = @ + 1]
                    ELSE aeFinally
    /\ UNCHANGED << aeMounted, aeDeps, aeOnError, aeOnFinally, aeEffectDeps, aeEffectsPending,
                    aeIssued, aeOutcome, aeCancelled, aeHandlers, aeSuccess, aeError,
                    aeCancelledAtSettle >>

\* The owning component unmounts: the cleanup of the last effect run is called.
AsyncUnmount ==
    /\ UNCHANGED outsideAsyncEffect
    /\ aeMounted
    /\ ~aeEffectsPending
    /\ aeMounted' = FALSE
    /\ aeCancelled' = AsyncCleanup
    /\ UNCHANGED << aeDeps, aeOnError, aeOnFinally, aeEffectDeps, aeEffectsPending, aeIssued,
                    aeStage, aeOutcome, aeHandlers, aeSuccess, aeError, aeFinally,
                    aeCancelledAtSettle >>

NextAsyncEffect ==
    \/ \E e \in ArgKinds, f \in ArgKinds, g \in BOOLEAN, d \in DepValues :
          AsyncRender(e, f, g, d)
    \/ AsyncFlushEffects
    \/ \E c \in Calls, outcome \in { "fulfilled", "rejected" } : AsyncSettle(c, outcome)
    \/ \E c \in Calls : AsyncThen(c)
    \/ \E c \in Calls : AsyncCatch(c)
    \/ \E c \in Calls : AsyncFinally(c)
    \/ AsyncUnmount

\* ----------------------------------------------------------- specifications

vars == << streamVars, recVars, stampVars, keyedVars, cbVars, elapsedVars, devicesVars, requestVars, analyserVars, providerVars, blobUrlsVars, elapsedViewVars, hashPairVars, asyncEffectVars >>

\* the stream manager alone: the recorder stays as constructed
StreamIdle ==
    /\ constraints = NullConstraints
    /\ mounted = TRUE
    /\ updateTriggeredAt = 0
    /\ renderDeps = Deps(NullConstraints, 0)
    /\ effectDeps = NoDeps
    /\ effectsPending = TRUE
    /\ needsRender = FALSE
    /\ streamRef = 0
    /\ renderedStream = 0
    /\ effectReq = 0
    /\ issued = 0
    /\ reqStatus = [r \in Requests |-> "none"]
    /\ isCancelled = [r \in Requests |-> FALSE]
    /\ stopCount = [r \in Requests |-> 0]
    /\ everCurrent = {}
    /\ exposed = {}
    /\ supersededAtResolve = {}
    /\ lastResolved = 0
    /\ prevCurrent = 0
    /\ effectConstraints = NullConstraints
    /\ latestByHashChange = FALSE
    /\ currentAtUnmount = 0
    /\ pendingAtUnmount = {}

\* the hooks a specification does not drive stay as constructed
IdleHooks == InitRecorder /\ InitStamp /\ InitKeyed /\ InitCallbacks /\ InitElapsed /\ InitDevices /\ InitRequest /\ InitAnalyser /\ InitProvider /\ InitBlobUrls /\ InitElapsedView /\ InitHashPair /\ InitAsyncEffect

\* the other hooks as constructed, whatever the provider starts from
IdleHooksOfProvider == InitRecorder /\ InitStamp /\ InitKeyed /\ InitCallbacks /\ InitElapsed /\ InitDevices /\ InitRequest /\ InitAnalyser /\ InitBlobUrls /\ InitElapsedView /\ InitHashPair /\ InitAsyncEffect

\* the other hooks as constructed, whatever the devices request starts from
IdleHooksOfRequest == InitRecorder /\ InitStamp /\ InitKeyed /\ InitCallbacks /\ InitElapsed /\ InitDevices /\ InitAnalyser /\ InitProvider /\ InitBlobUrls /\ InitElapsedView /\ InitHashPair /\ InitAsyncEffect

InitStreamSpec == InitStream /\ IdleHooks

SpecStream == InitStreamSpec /\ [][NextStream]_vars

\* the recorder alone, driven with arbitrary streams: the stream manager stays
\* as constructed
InitRecorderSpec == StreamIdle /\ IdleHooks

SpecRecorder == InitRecorderSpec /\ [][NextRecorder]_vars

\* the time-stamped stream manager alone
InitStampSpec == StreamIdle /\ IdleHooks

SpecStamp == InitStampSpec /\ [][NextStamp]_vars

\* the history-keyed stream manager alone
InitKeyedSpec == StreamIdle /\ IdleHooks

SpecKeyed == InitKeyedSpec /\ [][NextKeyed]_vars

\* the callback-based recorder alone
InitCallbacksSpec == StreamIdle /\ IdleHooks

SpecCallbacks == InitCallbacksSpec /\ [][NextCallbacks]_vars

\* the elapsed time view alone
InitElapsedSpec == StreamIdle /\ IdleHooks

SpecElapsed == InitElapsedSpec /\ [][NextElapsed]_vars

\* the device lists alone
InitDevicesSpec == StreamIdle /\ IdleHooks

SpecDevices == InitDevicesSpec /\ [][NextDevices]_vars

\* the devices request alone
InitRequestSpec == StreamIdle /\ IdleHooksOfRequest /\ InitRequestPlatform

SpecRequest == InitRequestSpec /\ [][NextRequest]_vars

\* React renders a pending state update and flushes the effects of a
\* committed render
SpecRequestFair ==
    /\ SpecRequest
    /\ WF_vars(RequestRender(rqConstraints))
    /\ WF_vars(RequestFlushEffects)

\* the analyser alone
InitAnalyserSpec == StreamIdle /\ IdleHooks

SpecAnalyser == InitAnalyserSpec /\ [][NextAnalyser]_vars

\* the audio context provider alone
InitProviderSpec == StreamIdle /\ IdleHooksOfProvider /\ InitProviderAny

SpecProvider == InitProviderSpec /\ [][NextProvider]_vars

\* the blob URLs alone
InitBlobUrlsSpec == StreamIdle /\ IdleHooks

SpecBlobUrls == InitBlobUrlsSpec /\ [][NextBlobUrls]_vars

\* elapsedTime alone
InitElapsedViewSpec == StreamIdle /\ IdleHooks

SpecElapsedView == InitElapsedViewSpec /\ [][NextElapsedView]_vars

\* hashDeviceIds applied to pairs of specifications alone
InitHashPairSpec == StreamIdle /\ IdleHooks

SpecHashPair == InitHashPairSpec /\ [][NextHashPair]_vars

\* useAsyncEffect alone
InitAsyncEffectSpec == StreamIdle /\ IdleHooks

SpecAsyncEffect == InitAsyncEffectSpec /\ [][NextAsyncEffect]_vars

\* ------------------------------------------------- stream manager: properties

Acquired == { r \in Requests : reqStatus[r] = "resolved" }

\* C1: single active stream. At most one acquired stream is unstopped, the
\* unstopped one is the current handle, every acquired stream that is not
\* current has been stopped exactly once, and nothing else was ever stopped.
SingleActiveStream ==
    /\ \A r \in Acquired : stopCount[r] = (IF streamRef = r THEN 0 ELSE 1)
    /\ \A r \in Requests \ Acquired : stopCount[r] = 0 /\ streamRef # r
    /\ Cardinality({ r \in Acquired : stopCount[r] = 0 }) <= 1

\* reached: the stream of a second request is current, the first one's is stopped
SingleActiveStreamReached ==
    /\ streamRef = 2
    /\ 1 \in Acquired
    /\ stopCount[1] = 1
    /\ stopCount[2] = 0

\* C2: last request wins. A stream that resolves when its request is no longer
\* the latest one issued is stopped at once (once), is never stored as current
\* and is never returned by a render; the current stream is always the stream of
\* the latest request; and the latest request, once resolved and not cancelled,
\* is current whatever resolved after it.
LastRequestWins ==
    /\ \A r \in supersededAtResolve :
          /\ r \notin everCurrent
          /\ r \notin exposed
          /\ stopCount[r] = 1
          /\ streamRef # r
    /\ streamRef # 0 => streamRef = issued
    /\ \A r \in Acquired : (r = issued /\ ~isCancelled[r]) => streamRef = r

\* reached: R1 issued first and resolved last, R2 issued second and resolved first
LastRequestWinsReached ==
    /\ issued = 2
    /\ reqStatus[1] = "resolved"
    /\ reqStatus[2] = "resolved"
    /\ lastResolved = 1
    /\ streamRef = 2

\* C3: teardown. After the unmount the current handle is empty, the stream that
\* was current at the unmount has been stopped once, and a request that was
\* pending at the unmount has its stream stopped once when it has resolved (and
\* never stored); no stream is ever stopped twice.
TeardownStopsOnce ==
    /\ \A r \in Requests : stopCount[r] <= 1
    /\ ~mounted =>
          /\ streamRef = 0
          /\ currentAtUnmount # 0 => stopCount[currentAtUnmount] = 1
          /\ \A r \in pendingAtUnmount :
                /\ r \notin everCurrent
                /\ stopCount[r] = (IF r \in Acquired THEN 1 ELSE 0)

\* reached: unmounted with a current stream and a pending request that resolved later
TeardownReached ==
    /\ ~mounted
    /\ currentAtUnmount # 0
    /\ \E r \in pendingAtUnmount : r \in Acquired

\* reached: unmounted while the latest, uncancelled request was pending; it resolved later
TeardownPendingReached ==
    /\ ~mounted
    /\ issued \in pendingAtUnmount
    /\ issued \in Acquired

\* C4: once the effects of a render with null constraints have run, the current
\* handle is empty.
NullConstraintsStopStream ==
    (mounted /\ constraints.isNull /\ ~effectsPending) => streamRef = 0

\* C5 as stated: while the latest request, issued for a changed hash, is pending,
\* the stream that was current before it is still current and unstopped.
PreviousStaysCurrentWhilePending ==
    (issued > 0 /\ reqStatus[issued] = "pending" /\ latestByHashChange /\ prevCurrent # 0)
        => (streamRef = prevCurrent /\ stopCount[prevCurrent] = 0)

\* C5 amended: while the latest request, issued for a changed hash, is pending,
\* the current handle is empty and the stream that was current before the
\* request was issued has been stopped (once).
PreviousStoppedWhilePending ==
    (issued > 0 /\ reqStatus[issued] = "pending" /\ latestByHashChange)
        => (streamRef = 0 /\ (prevCurrent # 0 => stopCount[prevCurrent] = 1))

PreviousStoppedWhilePendingReached ==
    /\ mounted
    /\ issued > 0
    /\ reqStatus[issued] = "pending"
    /\ latestByHashChange
    /\ prevCurrent # 0

\* The effect flush of a re-render under which only the audio member changed,
\* between the two values x and y, with no reload in between.
AudioSwitch(x, y) ==
    /\ effectsPending /\ ~effectsPending'
    /\ ~effectDeps.none
    /\ effectDeps.at = renderDeps.at
    /\ ~effectConstraints.isNull /\ ~constraints.isNull
    /\ effectConstraints.video = constraints.video
    /\ {effectConstraints.audio, constraints.audio} = {x, y}

Rejected(r) == reqStatus[r] = "pending" /\ reqStatus'[r] = "rejected"

\* C12: the rejection of a request issues no request, schedules no render and
\* leaves streamRef.current alone; once the latest request is rejected
\* streamRef.current is null, and the next request is issued only by an effect
\* run whose hash pair differs from the last run's or that follows a reload()
\* (updateTriggeredAt differs).
FailureNoAutomaticRetry ==
    [][/\ \A r \in Requests :
             Rejected(r) => /\ issued' = issued
                            /\ streamRef' = streamRef
                            /\ needsRender' = needsRender
                            /\ effectsPending' = effectsPending
                            /\ (r = issued => streamRef' = 0)
       /\ (issued # 0 /\ reqStatus[issued] = "rejected")
          => /\ streamRef = 0
             /\ (issued' # issued)
                => /\ effectsPending
                   /\ \/ hashDeviceIds(constraints) # hashDeviceIds(effectConstraints)
                      \/ renderDeps.at # effectDeps.at]_vars

\* C12 witness: the request that replaced a current stream was rejected; the
\* handle is empty and neither a render nor an effect is waiting
FailureNoAutomaticRetryReached ==
    /\ mounted /\ ~effectsPending /\ ~needsRender
    /\ issued # 0 /\ reqStatus[issued] = "rejected" /\ effectReq = issued
    /\ prevCurrent # 0
    /\ streamRef = 0

\* what the owner of the hook can observe: the stream returned by the last
\* render and a render scheduled by the hook (the hook takes no error callback
\* and returns no error member)
CallerView == << renderedStream, needsRender >>

\* C13: the rejection of a request changes what the owner of the hook can
\* observe.
FailureReported ==
    [][\A r \in Requests : Rejected(r) => CallerView' # CallerView]_vars

\* C14: no stream is stopped more than once, whatever the order of null
\* constraints and the unmount; in every state the cleanup run a second time
\* right after itself stops nothing (it finds streamRef.current null, which
\* stopStream skips), and after the unmount a further run of the cleanup
\* stops nothing.
IdempotentTeardown ==
    /\ \A r \in Requests : stopCount[r] <= 1
    /\ stopStream(CleanupStopCount, CleanupStreamRef) = CleanupStopCount
    /\ ~mounted => (streamRef = 0 /\ CleanupStopCount = stopCount)

\* C14 witness: the component was unmounted after its effect had run with null
\* constraints, which had stopped the stream that was current
IdempotentTeardownReached ==
    /\ ~mounted
    /\ constraints.isNull /\ effectConstraints.isNull /\ ~effectDeps.none
    /\ currentAtUnmount = 0
    /\ \E r \in everCurrent : stopCount[r] = 1

\* ------------------------------------------------------ recorder properties

\* the number of blobs of result.blobs that session r contributed
BlobsOf(res, r) == Cardinality({ i \in 1..Len(res.blobs) : res.blobs[i].rec = r })

\* the sessions of the current recording
RecordingSessions == IF recFirst = 0 THEN {} ELSE recFirst..sessions

\* the stop event of session r is delivered in this step
StopDelivered(r) == recEvents[r] = "flushed" /\ recEvents'[r] = "done"

\* the start event of session r is delivered in this step
StartDelivered(r) == recEvents[r] = "start" /\ recEvents'[r] = "running"

SessionContributesOneBlob ==
    [][\A r \in Sessions :
          /\ BlobsOf(result', r) <= 1
          /\ IF StopDelivered(r)
             THEN /\ Len(result'.blobs) = Len(result.blobs) + 1
                  /\ SubSeq(result'.blobs, 1, Len(result.blobs)) = result.blobs
                  /\ result'.blobs[Len(result'.blobs)].rec = r
                  /\ BlobsOf(result, r) = 0
             ELSE BlobsOf(result', r) <= BlobsOf(result, r)]_vars

\* C7 witness: one session completed by a stream change and one by an explicit
\* stop, each with its blob
SessionContributesOneBlobReached ==
    /\ recMounted /\ streamReplaced /\ ~isRecording
    /\ sessions = 2 /\ recState[1] = "inactive" /\ recState[2] = "inactive"
    /\ BlobsOf(result, 1) = 1 /\ BlobsOf(result, 2) = 1

NewRecordingReinitializes ==
    [][\A r \in Sessions :
          (StartDelivered(r) /\ r = recFirst /\ firstFresh /\ mediaRecorderRef = r)
          => result' = [startTime |-> StartTimeStamp(r), blobs |-> << >>]]_vars

\* a dataavailable event is delivered in this step (a chunk is pushed)
DataDelivered == \E r \in Sessions : chunksRef'[r] > chunksRef[r]

\* C17: the delivery of a dataavailable event leaves the result as it is, and
\* no blob of result.blobs belongs to a session that is still recording.
BlobsOnlyAtStop ==
    [][/\ DataDelivered => result' = result
       /\ \A i \in 1..Len(result'.blobs) :
             recState'[result'.blobs[i].rec] # "recording"]_vars

\* C17 witness: the second session records and has a segment buffered while
\* result.blobs holds the blob of the first session only
BlobsOnlyAtStopReached ==
    /\ recMounted
    /\ recState[2] = "recording" /\ chunksRef[2] = 1
    /\ Len(result.blobs) = 1 /\ result.blobs[1].rec = 1

\* --------------------------------- time-stamped stream manager: properties

\* C15: a stream is stored in streamRef.current only when its request is the
\* most recently issued one, and the stream of a request that was superseded
\* when it resolved is stopped, for every order of resolution and every
\* sequence of clock readings.
StampedLatestOnly ==
    [][\A r \in StampRequests :
          (tsStatus[r] = "pending" /\ tsStatus'[r] = "resolved")
          => /\ tsStreamRef' = r => r = tsIssued
             /\ r # tsIssued => tsStops'[r] = 1]_vars

\* --------------------------------- history-keyed stream manager: properties

\* C16: once the component is unmounted and no startStream call is pending,
\* every stream that getUserMedia delivered has been stopped exactly once.
KeyedTeardownStopsAll ==
    (~kMounted /\ \A r \in KeyedRequests : kStatus[r] # "pending")
    => \A r \in KeyedRequests :
          (kStatus[r] = "resolved" /\ kWanted[r]) => kStops[r] = 1

\* ------------------------------------- callback-based recorder: properties

\* C18: when the start event of a session that replaced a recording session
\* (the stream changed while isRecording stayed true) is delivered, onStop was
\* already called for the replaced session, and the callback called is
\* onResume.
StopThenResume ==
    [][\A r \in CbSessions :
          (cbEvents[r] = "start" /\ cbEvents'[r] = "running" /\ cbReplaces[r] # 0)
          => /\ cbEvents[cbReplaces[r]] = "done"
             /\ cbStarted'[r] = "onResume"]_vars


\* ------------------------------------------------ elapsed time: properties

Paused == ~etIsRecording \/ updateInterval = 0

DevicesSettled ==
    /\ mdMounted
    /\ mdIssued > 0
    /\ mdStatus[mdIssued] # "pending"
    /\ ~mdEffectsPending

\* C21: an enumeration that was superseded by a newer one before it settles
\* never writes the device lists, and once the latest enumeration has settled
\* the lists hold its result.
StaleEnumerationIgnored ==
    /\ [][\A r \in Enumerations :
            (mdStatus[r] = "pending" /\ mdStatus'[r] # "pending" /\ r # mdIssued)
            => (devices' = devices /\ devicesFrom' = devicesFrom)]_vars
    /\ [](DevicesSettled => devicesFrom = mdIssued)

\* a superseded enumeration settled after the latest one, whose result is held
StaleEnumerationIgnoredReached ==
    /\ DevicesSettled
    /\ mdIssued >= 2
    /\ mdStatus[mdIssued] = "resolved"
    /\ mdStatus[mdIssued - 1] = "resolved"
    /\ mdStaleSettled
    /\ devicesFrom = mdIssued
    /\ devices # NoDevices

\* C22: the lists are empty before the first successful enumeration, a
\* failed enumeration is logged and caught, and it leaves the empty lists.
EmptyListsUntilSuccess ==
    /\ [](~mdSucceeded => (devices = NoDevices /\ mdView = NoDevices))
    /\ [][\A r \in Enumerations :
            (mdStatus[r] = "pending" /\ mdStatus'[r] = "failed")
            => /\ mdLogged'[r]
               /\ ~mdCancelled[r] => devices' = NoDevices]_vars

\* after a successful enumeration a failed one emptied the lists again
EmptyListsUntilSuccessReached ==
    /\ mdSucceeded
    /\ mdIssued >= 2
    /\ mdStatus[mdIssued] = "failed"
    /\ mdStatus[mdIssued - 1] = "resolved"
    /\ devicesFrom = mdIssued
    /\ devices = NoDevices
    /\ mdView = NoDevices
    /\ mdLogged[mdIssued]

\* --------------------------------------------- devices request: properties

\* the hook is mounted and at rest after the permission queries were answered
RequestAtRest ==
    /\ rqMounted
    /\ rqQueryDelivered
    /\ ~rqEffectsPending
    /\ ~rqNeedsRender

NoRequestWhenGranted ==
    /\ [][rqIssued' > rqIssued
            => /\ isPermissionsInitialized(microphone, camera)
               /\ isRequestRequired(rqConstraints, microphone, camera)]_vars
    /\ []((RequestAtRest /\ ~isRequestRequired(rqConstraints, microphone, camera))
            => rqEnumDeps)

\* every requested capability was granted: lists without any stream request
NoRequestWhenGrantedReached ==
    /\ RequestAtRest
    /\ rqConstraints = << TRUE, TRUE >>
    /\ microphone = "granted"
    /\ camera = "granted"
    /\ rqIssued = 0
    /\ ~rqEnumPending
    /\ rqDevices = << TRUE, TRUE >>

\* C26: whenever the hook is at rest with constraints that require a
\* permission request and the lists it holds are not valid for them, a stream
\* was requested for these constraints.
ConstraintsChangeRerequests ==
    (/\ RequestAtRest
     /\ ~rqEnumPending
     /\ isRequestRequired(rqConstraints, microphone, camera)
     /\ ~isInitialized(rqConstraints, rqLists))
    => \E r \in 1..rqIssued : rqWanted[r] = rqConstraints

\* ---------------------------------------------------- analyser: properties

\* the sources connected to the analyser
Connected == { s \in Sources : anConnects[s] > 0 }

\* C27: at most one source is connected to the analyser, no source is
\* connected twice, and once the effects of a render have run the connected
\* source is the source of that render (none after unmount).
OneSourceConnected ==
    /\ Cardinality(Connected) <= 1
    /\ \A s \in Sources : anConnects[s] <= 1
    /\ (anMounted /\ anRan /\ ~anEffectsPending /\ analyserRef # 0)
       => Connected = (IF anSource = 0 THEN {} ELSE { anSource })
    /\ ~anMounted => Connected = {}

\* the source was changed: the old one is disconnected, the new one connected
OneSourceConnectedReached ==
    /\ anMounted
    /\ ~anEffectsPending
    /\ anReplaced
    /\ anSource # 0
    /\ Connected = { anSource }

\* ---------------------------------------- audio context provider: properties

\* C28: a user interaction resumes the suspended context that was given to
\* the mounted provider.
GivenContextWoken ==
    [][(/\ acInteractions' > acInteractions
        /\ acMounted
        /\ acRan
        /\ ~acEffectsPending
        /\ audioContext = 1
        /\ acState[1] = "suspended")
       => acState'[1] = "running"]_vars

\* --------------------------------------------------- blob URLs: properties

\* C29: once the effect has run for a blobs array, the URLs created for the
\* arrays (and lengths) before it are revoked, and after unmount every URL that was created
\* is revoked.
OldUrlsRevoked ==
    /\ (buMounted /\ buRan /\ ~buEffectsPending)
       => (buCreated \ { buDeps }) \subseteq buRevoked
    /\ ~buMounted => buCreated \subseteq buRevoked

\* ------------------------------------------- elapsedTime(result): properties

\* C30: elapsedTime returns the decomposition of now - startTime for every
\* result with a start time, 0 included, and the zero view without one.
ElapsedTimeIsReference ==
    evComputed
    => IF evStart = NoResult \/ evStart = NullTime
       THEN evView = ZeroView
       ELSE /\ evView.elapsed = evNow - evStart
            /\ evView.minutes = evView.elapsed \div 60000
            /\ evView.seconds = (evView.elapsed % 60000) \div 1000
            /\ evView.millis = evView.elapsed % 1000
            /\ evView.minutes * 60000 + evView.seconds * 1000 + evView.millis
               = evView.elapsed
            /\ evView.seconds \in 0..59
            /\ evView.millis \in 0..999

\* ------------------------------------- stream manager: the consumer's view

\* nothing of the stream manager is in flight: no effect to flush, no
\* acquisition pending, no state update awaiting its render
Quiescent ==
    /\ mounted
    /\ ~effectsPending
    /\ ~needsRender
    /\ \A r \in Requests : reqStatus[r] # "pending"

\* C31: in every quiescent state the stream last returned to the consumer is
\* streamRef.current, so the consumer never holds a stream the manager stopped.
ConsumerHoldsCurrent ==
    Quiescent
    => /\ renderedStream = streamRef
       /\ renderedStream # 0 => stopCount[renderedStream] = 0

\* ------------------------------------- hashDeviceIds(constraints): properties

\* what one member asks getUserMedia for: no track, a track of any device, or
\* a track of the device named by the deviceId
Selection(t) ==
    IF ~TrackTruthy(t) THEN << "none" >>
    ELSE IF t.kind = "bool" \/ ~DeviceIdTruthy(t.deviceId) THEN << "any" >>
    ELSE << t.deviceId.idKind, t.deviceId.id >>

\* the audio and video selections of a specification
Selections(c) ==
    IF c.isNull THEN << << "none" >>, << "none" >> >>
    ELSE << Selection(c.audio), Selection(c.video) >>

\* C32: two specifications with different audio or video selections never get
\* the same (audioIdHash, videoIdHash) pair, and a specification that requests
\* audio or video never gets the (null, null) pair of the no-stream marker.
HashesSeparateSelections ==
    hpComputed
    => /\ Selections(hpLeft) # Selections(hpRight) => hpHashes[1] # hpHashes[2]
       /\ Selections(hpLeft) # Selections(NullConstraints)
          => hpHashes[1] # hashDeviceIds(NullConstraints)

\* ------------------------------------------------ recorder: the stop() calls

\* C33: stop() is called only on a session that is recording, so that every
\* session gets at most one stop() call.
StopOnlyWhenRecording ==
    /\ idleStops = {}
    /\ \A r \in Sessions : stopCalls[r] <= 1

\* ------------------------------------------ recorder: the first start event

\* C34: the start event of the first session of a recording is delivered with
\* isResuming = false and sets startTime to its time stamp, also when the
\* stream was replaced before the event is delivered.
FirstStartNotResuming ==
    [][\A r \in Sessions :
          (StartDelivered(r) /\ r = recFirst)
          => /\ previousMediaRecorderRef = 0
             /\ result'.startTime = StartTimeStamp(r)]_vars

\* ------------------------------------------- recorder: the segments of a blob

\* C35: the blob appended when the stop event of a session is delivered holds
\* every segment that was delivered for that session and no segment of another
\* session, whatever the order of the events of different sessions.
BlobOfOwnSegments ==
    [][\A r \in Sessions :
          StopDelivered(r)
          => /\ result'.blobs[Len(result'.blobs)].rec = r
             /\ result'.blobs[Len(result'.blobs)].own = delivered[r]
             /\ ~result'.blobs[Len(result'.blobs)].foreign]_vars

\* ------------------------------------------ recorder: one recording session

\* C36: at most one session is in the recording state, and none is once the
\* effect has run for isRecording = false or for a null stream, or the owner
\* has unmounted.
OneRecordingSession ==
    /\ Cardinality({ r \in Sessions : recState[r] = "recording" }) <= 1
    /\ (~isRecording \/ stream = 0 \/ ~recMounted)
       => \A r \in Sessions : recState[r] # "recording"

\* C36 witness: a session that replaced another one (stopped by the stream
\* change) was recording when the owner unmounted, and is stopped
OneRecordingSessionReached ==
    /\ ~recMounted /\ isRecording /\ stream # 0
    /\ sessions = 2 /\ mediaRecorderRef = 2
    /\ stopCalls[1] = 1 /\ stopCalls[2] = 1
    /\ recState[1] = "inactive" /\ recState[2] = "inactive"

\* ------------------------------------------------ useAsyncEffect: properties

\* C37: no callback is invoked for a call whose effect was cleaned up before
\* it settled; the .then callback of a fulfilled call that is not cancelled
\* invokes onSuccess, which is invoked once for such a call and never for a
\* rejected one.
CancelledCallsAreSilent ==
    /\ [][\A c \in Calls :
             (aeStage[c] = "then" /\ aeStage'[c] = "catch" /\ aeOutcome[c] = "fulfilled"
              /\ ~aeCancelled[c])
             => aeSuccess'[c] = 1]_vars
    /\ [](\A c \in Calls :
             /\ c \in aeCancelledAtSettle
                => (aeSuccess[c] = 0 /\ aeError[c] = 0 /\ aeFinally[c] = 0)
             /\ aeSuccess[c] <= 1
             /\ aeOutcome[c] = "rejected" => aeSuccess[c] = 0)

\* C37 witness: the first call was superseded while pending and then
\* fulfilled, with no callback invoked, although onFinally was given; the
\* second call was fulfilled and had onSuccess invoked once
CancelledCallsAreSilentReached ==
    /\ 1 \in aeCancelledAtSettle /\ aeOutcome[1] = "fulfilled" /\ aeStage[1] = "done"
    /\ aeHandlers[1].onFinally
    /\ aeSuccess[1] = 0 /\ aeFinally[1] = 0
    /\ aeOutcome[2] = "fulfilled" /\ aeStage[2] = "done" /\ aeSuccess[2] = 1

====
